---- MODULE Spec2Model ----
(***************************************************************************)
(* Calendar booking agent: the request pipeline (CalendarAgent), the tool  *)
(* layer (CalendarTools) and the availability engine                       *)
(* (GoogleCalendarService) over an external, mutable calendar store.       *)
(*                                                                         *)
(* Instants are naive datetimes counted in minutes since 2024-01-01 00:00  *)
(* (a Monday), so day index d has Python weekday d % 7 (Monday = 0).       *)
(***************************************************************************)
EXTENDS Integers, Sequences, FiniteSets, TLC

VARIABLES
    events,     \* the calendar store: events in insertion order
    svc,        \* the last direct query of the service and its answer
    state,      \* per run: the state mapping passed from node to node
    pc,         \* per run: the node of the graph the run is at
    pending,    \* per run: the booking between its availability check and its create
    calls,      \* per run: the collaborator calls made so far, in order
    reply       \* per run: what process_message returned

vars == <<events, svc, state, pc, pending, calls, reply>>

(***************************************************************************)
(* Settings (defaults of app/config/settings.py)                           *)
(***************************************************************************)
BUSINESS_START_HOUR == 9
BUSINESS_END_HOUR == 17
BUSINESS_DAYS == {0, 1, 2, 3, 4}
BOOKING_BUFFER_MINUTES == 15
MAX_SUGGESTIONS == 10

(***************************************************************************)
(* Bounds of the model                                                     *)
(***************************************************************************)
MaxEvents == 2          \* events the store holds in the service-level runs

MinutesPerDay == 1440
Today == 10             \* datetime.now(): Thursday 2024-01-11
BizDay == Today + 1     \* Friday 2024-01-12
OffDay == Today + 2     \* Saturday 2024-01-13

At(day, hour, minute) == day * MinutesPerDay + hour * 60 + minute

\* Values are tagged records, so that None, strings, integers and datetimes
\* can meet in one field
Null == [kind |-> "null"]                       \* Python None / JSON null
IntVal(n) == [kind |-> "int", v |-> n]
StrVal(s) == [kind |-> "str", form |-> "word", text |-> s]
\* a string of digits "a<sep>b<sep>c", such as "2024-01-12" or "01/12/2024"
NumDate(a, sep, b, c) == [kind |-> "str", form |-> "numdate", a |-> a, b |-> b,
                          c |-> c, sep |-> sep]
\* a string "hh", "hh:mm", "hh am", "hh:mm pm", ...; colon: minutes are written
TimeStr(hh, colon, mm, mer) == [kind |-> "str", form |-> "time", hh |-> hh,
                                colon |-> colon, mm |-> mm, mer |-> mer]
Date(day) == [kind |-> "date", day |-> day]
TimeOfDay(hour, minute) == [kind |-> "time", hour |-> hour, minute |-> minute]
Datetime(t) == [kind |-> "datetime", t |-> t]

\* Python truthiness of a value ("if not date")
Truthy(v) ==
    /\ v.kind # "null"
    /\ ~(v.kind = "int" /\ v.v = 0)
    /\ ~(v.kind = "str" /\ v.form = "word" /\ v.text = "")

(***************************************************************************)
(* datetime helpers                                                        *)
(***************************************************************************)
DayOf(t) == t \div MinutesPerDay

weekday(t) == DayOf(t) % 7

\* datetime.replace(hour=h, minute=0, second=0, microsecond=0)
replace_hour(t, h) == At(DayOf(t), h, 0)

\* datetime.isoformat() of a naive datetime, and the 'Z' suffix the service
\* appends when tzinfo is None (every datetime of this program is naive)
isoformat(t) == [wall |-> t, tz |-> ""]

AppendZ(iso) == [iso EXCEPT !.tz = "Z"]

\* strftime('%I:%M %p'): 12-hour clock label of a datetime
strftime_IMp(t) ==
    LET h == (t % MinutesPerDay) \div 60
    IN  [I |-> IF h % 12 = 0 THEN 12 ELSE h % 12,
         M |-> t % 60,
         p |-> IF h < 12 THEN "AM" ELSE "PM"]

Max(a, b) == IF a >= b THEN a ELSE b

(***************************************************************************)
(* The calendar store (external collaborator)                              *)
(***************************************************************************)
\* the 'start' / 'end' field of an event as the store renders it
EventTimeField(t, allDay) ==
    IF allDay THEN [date |-> DayOf(t)]
    ELSE [dateTime |-> AppendZ(isoformat(t))]

EventItem(ev) ==
    [id |-> ev.id, status |-> ev.status,
     start |-> EventTimeField(ev.start, ev.allDay),
     end |-> EventTimeField(ev.end, ev.allDay)]

\* events().list(timeMin, timeMax): the events with end > timeMin and
\* start < timeMax, in the order the store holds them
RECURSIVE events_list(_, _, _)
events_list(evs, timeMin, timeMax) ==
    IF evs = <<>> THEN <<>>
    ELSE LET ev == Head(evs)
             rest == events_list(Tail(evs), timeMin, timeMax)
         IN  IF ev.end > timeMin.wall /\ ev.start < timeMax.wall
             THEN <<EventItem(ev)>> \o rest
             ELSE rest

\* events().insert(body): the store appends the event and returns it
events_insert(evs, start, end) ==
    Append(evs, [id |-> Len(evs) + 1, start |-> start.wall, end |-> end.wall,
                 status |-> "confirmed", allDay |-> FALSE])

(***************************************************************************)
(* GoogleCalendarService                                                   *)
(***************************************************************************)
\* variant: an all-day event has no start and no end
Service_parse_datetime_TimedOnly(datetime_obj) ==
    IF "dateTime" \in DOMAIN datetime_obj
    THEN Datetime(datetime_obj.dateTime.wall)
    ELSE Null

\* _parse_datetime: naive datetime of an event's start / end field
Service_parse_datetime(datetime_obj) ==
    IF "dateTime" \in DOMAIN datetime_obj
    THEN Datetime(datetime_obj.dateTime.wall)
    ELSE IF "date" \in DOMAIN datetime_obj
         THEN Datetime(datetime_obj.date * MinutesPerDay)
         ELSE Null

\* variant: the conflict loop without the status test
HasConflict_AnyStatus(items) == items # <<>>

\* the conflict loop of check_availability over the listed items
RECURSIVE HasConflict(_)
HasConflict(items) ==
    IF items = <<>> THEN FALSE
    ELSE IF Head(items).status # "cancelled" THEN TRUE
         ELSE HasConflict(Tail(items))

\* check_availability(start_time, end_time); httpError: the list call raises
Service_check_availability(evs, start_time, end_time, httpError) ==
    IF httpError THEN FALSE
    ELSE ~HasConflict(events_list(evs, AppendZ(isoformat(start_time)),
                                  AppendZ(isoformat(end_time))))

\* variant: the cancelled events are busy too
RECURSIVE BusyTimes_AnyStatus(_)
BusyTimes_AnyStatus(items) ==
    IF items = <<>> THEN <<>>
    ELSE LET ev == Head(items)
             event_start == Service_parse_datetime(ev.start)
             event_end == Service_parse_datetime(ev.end)
         IN  IF Truthy(event_start) /\ Truthy(event_end)
             THEN <<<<event_start.t, event_end.t>>>> \o BusyTimes_AnyStatus(Tail(items))
             ELSE BusyTimes_AnyStatus(Tail(items))

\* busy_times: (start, end) of every listed event that is not cancelled
RECURSIVE BusyTimes(_)
BusyTimes(items) ==
    IF items = <<>> THEN <<>>
    ELSE LET ev == Head(items)
             event_start == Service_parse_datetime(ev.start)
             event_end == Service_parse_datetime(ev.end)
         IN  IF ev.status # "cancelled" /\ Truthy(event_start) /\ Truthy(event_end)
             THEN <<<<event_start.t, event_end.t>>>> \o BusyTimes(Tail(items))
             ELSE BusyTimes(Tail(items))

\* list.sort(key=lambda x: x[0]): stable insertion by start
RECURSIVE InsertByStart(_, _)
InsertByStart(sorted, x) ==
    IF sorted = <<>> THEN <<x>>
    ELSE IF x[1] < Head(sorted)[1] THEN <<x>> \o sorted
         ELSE <<Head(sorted)>> \o InsertByStart(Tail(sorted), x)

RECURSIVE SortByStart(_)
SortByStart(busy) ==
    IF busy = <<>> THEN <<>>
    ELSE InsertByStart(SortByStart(SubSeq(busy, 1, Len(busy) - 1)),
                       busy[Len(busy)])


\* variant: the buffer is left out before a busy period
FitsBefore_NoBuffer(current_time, slot_duration, busy_start) ==
    current_time + slot_duration <= busy_start

\* line 208: a slot and the buffer fit before the busy period
FitsBefore(current_time, slot_duration, busy_start) ==
    current_time + slot_duration + BOOKING_BUFFER_MINUTES <= busy_start

\* variant: current time jumps to the end of the busy period, also backwards
MoveAfter_NoMax(current_time, busy_end) == busy_end + BOOKING_BUFFER_MINUTES

\* variant: the buffer is left out after a busy period
MoveAfter_NoBuffer(current_time, busy_end) == Max(current_time, busy_end)

\* line 213: move current time to after the busy period
MoveAfter(current_time, busy_end) ==
    Max(current_time, busy_end + BOOKING_BUFFER_MINUTES)

\* variant: the buffer is required before the end of the business day too
FitsInDay_WithBuffer(current_time, slot_duration, end_of_day) ==
    current_time + slot_duration + BOOKING_BUFFER_MINUTES <= end_of_day

\* line 216: a slot fits before the end of the business day
FitsInDay(current_time, slot_duration, end_of_day) ==
    current_time + slot_duration <= end_of_day

\* lines 208-210: the inner while loop; w = [cur, slots]
RECURSIVE SlotsBefore(_, _, _)
SlotsBefore(w, slot_duration, busy_start) ==
    IF FitsBefore(w.cur, slot_duration, busy_start)
    THEN SlotsBefore([cur |-> w.cur + slot_duration,
                      slots |-> Append(w.slots, strftime_IMp(w.cur))],
                     slot_duration, busy_start)
    ELSE w

\* lines 204-213: the for loop over the sorted busy times
RECURSIVE WalkBusy(_, _, _)
WalkBusy(w, slot_duration, busy_times) ==
    IF busy_times = <<>> THEN w
    ELSE LET busy_start == Head(busy_times)[1]
             busy_end == Head(busy_times)[2]
             w1 == IF busy_start - w.cur >= slot_duration + BOOKING_BUFFER_MINUTES
                   THEN SlotsBefore(w, slot_duration, busy_start)
                   ELSE w
         IN  WalkBusy([cur |-> MoveAfter(w1.cur, busy_end), slots |-> w1.slots],
                      slot_duration, Tail(busy_times))

\* lines 216-218: the slots after the last busy period
RECURSIVE SlotsAfter(_, _, _)
SlotsAfter(w, slot_duration, end_of_day) ==
    IF FitsInDay(w.cur, slot_duration, end_of_day)
    THEN SlotsAfter([cur |-> w.cur + slot_duration,
                     slots |-> Append(w.slots, strftime_IMp(w.cur))],
                    slot_duration, end_of_day)
    ELSE w

\* variant: the slots are returned without the cut
Truncate_None(available_slots) == available_slots

\* line 221: available_slots[:settings.MAX_SUGGESTIONS]
Truncate(available_slots) ==
    SubSeq(available_slots, 1,
           IF Len(available_slots) < MAX_SUGGESTIONS
           THEN Len(available_slots) ELSE MAX_SUGGESTIONS)

\* variant: every day is a business day
IsBusinessDay_Always(date) == TRUE

\* line 168: the business-day check
IsBusinessDay(date) == weekday(date) \in BUSINESS_DAYS

\* get_available_slots(date, duration_minutes); httpError: the list call raises
Service_get_available_slots(evs, date, duration_minutes, httpError) ==
    LET start_of_day == replace_hour(date, BUSINESS_START_HOUR)
        end_of_day == replace_hour(date, BUSINESS_END_HOUR)
    IN  IF ~IsBusinessDay(date) THEN <<>>
        ELSE IF httpError THEN <<>>
        ELSE LET items == events_list(evs, AppendZ(isoformat(start_of_day)),
                                      AppendZ(isoformat(end_of_day)))
                 busy_times == SortByStart(BusyTimes(items))
                 w == WalkBusy([cur |-> start_of_day, slots |-> <<>>],
                               duration_minutes, busy_times)
             IN  Truncate(SlotsAfter(w, duration_minutes, end_of_day).slots)

(***************************************************************************)
(* Inputs of the service-level runs                                        *)
(***************************************************************************)
\* <<start, end, allDay>> of the events other calendar users add
EventWindows ==
    { <<At(BizDay, 10, 0), At(BizDay, 11, 0), FALSE>>,
      <<At(BizDay, 8, 0), At(BizDay, 9, 30), FALSE>>,
      <<At(BizDay, 10, 0), At(BizDay, 14, 0), FALSE>>,
      <<At(BizDay, 12, 0), At(BizDay, 12, 30), FALSE>>,
      <<At(BizDay, 16, 30), At(BizDay, 18, 0), FALSE>>,
      <<At(BizDay, 0, 0), At(BizDay + 1, 0, 0), TRUE>>,
      <<At(OffDay, 10, 0), At(OffDay, 11, 0), FALSE>> }

\* <<start_time, end_time>> of the direct create_event and check_availability calls
QueryWindows ==
    { <<At(BizDay, 10, 30), At(BizDay, 11, 30)>>,
      <<At(BizDay, 11, 0), At(BizDay, 12, 0)>>,
      <<At(BizDay, 9, 0), At(BizDay, 10, 0)>>,
      <<At(BizDay, 14, 0), At(BizDay, 14, 30)>> }

QueryDates == { At(BizDay, 0, 0), At(OffDay, 0, 0) }

QueryDurations == { 30, 45, 60 }

NoQuery ==
    [op |-> "none", a |-> 0, b |-> 0, httpError |-> FALSE,
     avail |-> FALSE, slots |-> <<>>]

(***************************************************************************)
(* Service-level operations: the store changes under the service, and the  *)
(* service is queried directly                                             *)
(***************************************************************************)
\* another user of the calendar adds an event
StoreAddEvent(w) ==
    /\ Len(events) < MaxEvents
    /\ events' = Append(events, [id |-> Len(events) + 1, start |-> w[1],
                                 end |-> w[2], status |-> "confirmed",
                                 allDay |-> w[3]])
    /\ svc' = NoQuery

\* another user of the calendar cancels an event (it stays listed as cancelled)
StoreCancelEvent(i) ==
    /\ i \in 1..Len(events)
    /\ events[i].status # "cancelled"
    /\ events' = [events EXCEPT ![i].status = "cancelled"]
    /\ svc' = NoQuery

\* variant: the event is inserted only while its window is still free
Service_create_event_IfFree(evs, start_time, end_time, httpError) ==
    IF httpError THEN [raised |-> TRUE, events |-> evs]
    ELSE [raised |-> FALSE,
          events |-> IF Service_check_availability(evs, start_time, end_time, FALSE)
                     THEN events_insert(evs, AppendZ(isoformat(start_time)),
                                        AppendZ(isoformat(end_time)))
                     ELSE evs]

\* create_event(title, start_time, end_time); on an HttpError it re-raises
Service_create_event(evs, start_time, end_time, httpError) ==
    IF httpError THEN [raised |-> TRUE, events |-> evs]
    ELSE [raised |-> FALSE,
          events |-> events_insert(evs, AppendZ(isoformat(start_time)),
                                   AppendZ(isoformat(end_time)))]

CallCreateEvent(w, httpError) ==
    /\ Len(events) < MaxEvents
    /\ events' = Service_create_event(events, w[1], w[2], httpError).events
    /\ svc' = NoQuery

CallCheckAvailability(w, httpError) ==
    /\ svc' = [NoQuery EXCEPT !.op = "check_availability", !.a = w[1], !.b = w[2],
                              !.httpError = httpError,
                              !.avail = Service_check_availability(
                                            events, w[1], w[2], httpError)]
    /\ UNCHANGED events

CallGetAvailableSlots(date, duration_minutes, httpError) ==
    /\ svc' = [NoQuery EXCEPT !.op = "get_available_slots", !.a = date,
                              !.b = duration_minutes, !.httpError = httpError,
                              !.slots = Service_get_available_slots(
                                            events, date, duration_minutes, httpError)]
    /\ UNCHANGED events

(***************************************************************************)
(* CalendarAgent: date and time normalisation                              *)
(***************************************************************************)
Now == At(Today, 8, 0)          \* datetime.now()

\* str.lower() on the words of the vocabulary
lower(text) ==
    CASE text = "Tomorrow" -> "tomorrow"
      [] text = "Book_Appointment" -> "book_appointment"
      [] OTHER -> text

IsLeap(y) == (y % 4 = 0 /\ y % 100 # 0) \/ y % 400 = 0

DaysInMonth(y, m) ==
    IF m = 2 THEN (IF IsLeap(y) THEN 29 ELSE 28)
    ELSE IF m \in {4, 6, 9, 11} THEN 30 ELSE 31

RECURSIVE DaysBeforeYear(_)
DaysBeforeYear(y) ==
    IF y = 2024 THEN 0
    ELSE IF y > 2024
         THEN DaysBeforeYear(y - 1) + (IF IsLeap(y - 1) THEN 366 ELSE 365)
         ELSE DaysBeforeYear(y + 1) - (IF IsLeap(y) THEN 366 ELSE 365)

RECURSIVE DaysBeforeMonth(_, _)
DaysBeforeMonth(y, m) ==
    IF m = 1 THEN 0 ELSE DaysBeforeMonth(y, m - 1) + DaysInMonth(y, m - 1)

\* the day index of the calendar date y-m-d
DayIndex(y, m, d) == DaysBeforeYear(y) + DaysBeforeMonth(y, m) + (d - 1)

ValidYMD(y, m, d) ==
    /\ y \in 1000..9999
    /\ m \in 1..12
    /\ d >= 1 /\ d <= DaysInMonth(y, m)

\* variant: the day-first formats are tried before the month-first ones
DateFormats_DayFirst ==
    << [sep |-> "-", order |-> "ymd"],
       [sep |-> "/", order |-> "dmy"],
       [sep |-> "-", order |-> "dmy"],
       [sep |-> "/", order |-> "mdy"],
       [sep |-> "-", order |-> "mdy"] >>

\* the formats _parse_date_component tries, in order
DateFormats ==
    << [sep |-> "-", order |-> "ymd"],      \* %Y-%m-%d
       [sep |-> "/", order |-> "mdy"],      \* %m/%d/%Y
       [sep |-> "-", order |-> "mdy"],      \* %m-%d-%Y
       [sep |-> "/", order |-> "dmy"],      \* %d/%m/%Y
       [sep |-> "-", order |-> "dmy"] >>    \* %d-%m-%Y

\* datetime.strptime(date_str, fmt).date(); Null: ValueError
strptime(s, fmt) ==
    LET y == IF fmt.order = "ymd" THEN s.a ELSE s.c
        m == CASE fmt.order = "ymd" -> s.b
               [] fmt.order = "mdy" -> s.a
               [] OTHER -> s.b
        d == CASE fmt.order = "ymd" -> s.c
               [] fmt.order = "mdy" -> s.b
               [] OTHER -> s.a
    IN  IF s.form = "numdate" /\ s.sep = fmt.sep /\ ValidYMD(y, m, d)
        THEN Date(DayIndex(y, m, d))
        ELSE Null

\* dateutil.parser.parse on the strings of the vocabulary; Null: ParserError.
\* Relative keywords and free words are rejected; a weekday name is the next
\* such day from today on; year-first digits are read as year, month, day; a
\* bare time is today at that time.
dateutil_parse(s) ==
    CASE s.form = "numdate" ->
            IF ValidYMD(s.a, s.b, s.c) THEN Datetime(At(DayIndex(s.a, s.b, s.c), 0, 0))
            ELSE IF ValidYMD(s.c, s.a, s.b)
                 THEN Datetime(At(DayIndex(s.c, s.a, s.b), 0, 0))
                 ELSE IF ValidYMD(s.c, s.b, s.a)
                      THEN Datetime(At(DayIndex(s.c, s.b, s.a), 0, 0))
                      ELSE Null
      [] s.form = "time" ->
            LET h == IF s.mer = "pm" /\ s.hh < 12 THEN s.hh + 12
                     ELSE IF s.mer = "am" /\ s.hh = 12 THEN 0 ELSE s.hh
                m == IF s.colon THEN s.mm ELSE 0
            IN  IF (s.colon \/ s.mer # "") /\ h \in 0..23 /\ m \in 0..59
                   /\ (s.mer = "" \/ s.hh \in 0..12)
                THEN Datetime(At(Today, h, m))
                ELSE Null
      [] OTHER ->
            LET w == lower(s.text)
                names == <<"monday", "tuesday", "wednesday", "thursday",
                           "friday", "saturday", "sunday">>
            IN  IF \E i \in 1..7 : names[i] = w
                THEN LET i == CHOOSE i \in 1..7 : names[i] = w
                     IN  Datetime(At(Today + (((i - 1 - (Today % 7)) + 7) % 7), 0, 0))
                ELSE Null

\* the loop over the formats: the first one that parses wins
RECURSIVE FirstFormat(_, _)
FirstFormat(s, formats) ==
    IF formats = <<>> THEN Null
    ELSE IF strptime(s, Head(formats)) # Null THEN strptime(s, Head(formats))
         ELSE FirstFormat(s, Tail(formats))

\* _parse_date_component(date_str): a Date, or Null
Agent_parse_date_component(date_str) ==
    IF ~Truthy(date_str) THEN Null
    ELSE IF date_str.kind # "str" THEN Null     \* .lower() raises, caught
    ELSE IF date_str.form = "word" /\ lower(date_str.text) = "today"
         THEN Date(DayOf(Now))
    ELSE IF date_str.form = "word" /\ lower(date_str.text) = "tomorrow"
         THEN Date(DayOf(Now + MinutesPerDay))
    ELSE IF date_str.form = "word" /\ lower(date_str.text) = "yesterday"
         THEN Date(DayOf(Now - MinutesPerDay))
    ELSE IF FirstFormat(date_str, DateFormats) # Null
         THEN FirstFormat(date_str, DateFormats)
    ELSE IF dateutil_parse(date_str) # Null
         THEN Date(DayOf(dateutil_parse(date_str).t))
    ELSE Null

\* variant: hours and minutes out of range wrap around
time_replace_Wraps(hour, minute) == TimeOfDay(hour % 24, minute % 60)

\* datetime.min.time().replace(hour=, minute=); Null: ValueError
time_replace(hour, minute) ==
    IF hour \in 0..23 /\ minute \in 0..59 THEN TimeOfDay(hour, minute) ELSE Null

\* _parse_time_component(time_str): a TimeOfDay, or Null
Agent_parse_time_component(time_str) ==
    IF ~Truthy(time_str) THEN Null
    ELSE IF time_str.kind # "str" THEN Null     \* .lower() raises, caught
    ELSE IF time_str.form # "time" THEN Null    \* int() raises, caught
    ELSE IF time_str.mer # ""
         THEN LET is_pm == time_str.mer = "pm"
                  hour0 == time_str.hh
                  minute == IF time_str.colon THEN time_str.mm ELSE 0
                  hour == IF is_pm /\ hour0 # 12 THEN hour0 + 12
                          ELSE IF ~is_pm /\ hour0 = 12 THEN 0 ELSE hour0
              IN  time_replace(hour, minute)
    ELSE IF time_str.colon THEN time_replace(time_str.hh, time_str.mm)
    ELSE time_replace(time_str.hh, 0)

\* datetime.combine(date, time)
combine(date, time) == Datetime(At(date.day, time.hour, time.minute))

\* _parse_datetime(date_str, time_str): a Datetime, or Null
Agent_parse_datetime(date_str, time_str) ==
    LET target_date == Agent_parse_date_component(date_str)
        target_time == Agent_parse_time_component(time_str)
    IN  IF ~Truthy(target_date) THEN Null
        ELSE IF ~Truthy(target_time) THEN Null
        ELSE combine(target_date, target_time)

\* _parse_date(date_str): the date at midnight, or Null
Agent_parse_date(date_str) ==
    LET target_date == Agent_parse_date_component(date_str)
    IN  IF Truthy(target_date) THEN combine(target_date, TimeOfDay(0, 0)) ELSE Null

(***************************************************************************)
(* CalendarAgent: entity extraction                                        *)
(***************************************************************************)
\* A user message is the sequence of its tokens (words, digit dates, times).
\* A reply of the language model to the entity prompt is
\* [fence, prose, body]: wrapped in a ```json fence, surrounded by prose, and
\* body = [json |-> "object", value |-> bag]   a JSON object,
\*        [json |-> "malformed"]               braces around invalid JSON,
\*        [json |-> "null"]                    the JSON literal null,
\*        [json |-> "none"]                    no JSON at all.

\* _clean_json_response(text): the fences are removed, and the span from the
\* first "{" to the last "}" is kept when there is one
Agent_clean_json_response(text) ==
    IF text.body.json \in {"object", "malformed"}
    THEN [fence |-> FALSE, prose |-> FALSE, body |-> text.body]
    ELSE [text EXCEPT !.fence = FALSE]

\* json.loads(text): [ok, value]; ok = FALSE: JSONDecodeError
json_loads(text) ==
    IF text.fence \/ text.prose THEN [ok |-> FALSE, value |-> Null]
    ELSE CASE text.body.json = "object" -> [ok |-> TRUE, value |-> text.body.value]
           [] text.body.json = "null" -> [ok |-> TRUE, value |-> Null]
           [] OTHER -> [ok |-> FALSE, value |-> Null]

\* re.search(pattern, message): the first token the pattern matches, or Null
FirstMatch(message, P(_)) ==
    IF \E i \in 1..Len(message) : P(message[i])
    THEN message[CHOOSE i \in 1..Len(message) :
                    P(message[i]) /\ \A j \in 1..(i - 1) : ~P(message[j])]
    ELSE Null

IsWord(tok, w) == tok.form = "word" /\ lower(tok.text) = w

Weekdays == {"monday", "tuesday", "wednesday", "thursday", "friday",
             "saturday", "sunday"}

\* \b\d{1,2}[/-]\d{1,2}[/-]\d{2,4}\b
IsSlashDate(tok) ==
    tok.form = "numdate" /\ tok.a \in 0..99 /\ tok.b \in 0..99 /\ tok.c \in 10..9999

IsWeekday(tok) == tok.form = "word" /\ lower(tok.text) \in Weekdays

\* \b(next|this)\s+(week|month|<weekday>)\b; a weekday is taken by the
\* pattern before, so only the week and month phrases are left
IsNextThis(tok) ==
    tok.form = "word"
    /\ lower(tok.text) \in {"next week", "this week", "next month", "this month"}

IsToday(tok) == IsWord(tok, "today")
IsTomorrow(tok) == IsWord(tok, "tomorrow")
IsYesterday(tok) == IsWord(tok, "yesterday")

\* the date battery: the first pattern that matches anywhere wins
FallbackDate(message) ==
    IF FirstMatch(message, IsToday) # Null THEN StrVal("today")
    ELSE IF FirstMatch(message, IsTomorrow) # Null THEN StrVal("tomorrow")
    ELSE IF FirstMatch(message, IsYesterday) # Null THEN StrVal("yesterday")
    ELSE IF FirstMatch(message, IsSlashDate) # Null
         THEN FirstMatch(message, IsSlashDate)
    ELSE IF FirstMatch(message, IsWeekday) # Null
         THEN FirstMatch(message, IsWeekday)
    ELSE FirstMatch(message, IsNextThis)

\* \b(\d{1,2})\s*(pm|PM)\b and \b(\d{1,2})\s*(am|AM)\b, under IGNORECASE
IsPm(tok) == tok.form = "time" /\ tok.mer = "pm"
IsAm(tok) == tok.form = "time" /\ tok.mer = "am"

\* \b(\d{1,2}):(\d{2})\s*(am|pm|AM|PM)?\b
IsFull(tok) == tok.form = "time" /\ tok.colon

\* group(1) of the am / pm patterns: the digits next to the suffix
DigitsBeforeMeridiem(tok) == IF tok.colon THEN tok.mm ELSE tok.hh

\* the time battery: the first pattern that matches anywhere wins; the
\* result is the string f"{hour:02d}:{minute:02d}"
FallbackTime(message) ==
    IF FirstMatch(message, IsPm) # Null
    THEN LET hour == DigitsBeforeMeridiem(FirstMatch(message, IsPm))
         IN  TimeStr(IF hour # 12 THEN hour + 12 ELSE hour, TRUE, 0, "")
    ELSE IF FirstMatch(message, IsAm) # Null
    THEN LET hour == DigitsBeforeMeridiem(FirstMatch(message, IsAm))
         IN  TimeStr(IF hour = 12 THEN 0 ELSE hour, TRUE, 0, "")
    ELSE IF FirstMatch(message, IsFull) # Null
    THEN LET m == FirstMatch(message, IsFull)
         IN  TimeStr(m.hh, TRUE, m.mm, "")
    ELSE Null

title_keywords ==
    <<"meeting", "call", "appointment", "session", "conference", "interview">>

\* keyword in message.lower(): a substring test
ContainsKeyword(message, keyword) ==
    \E i \in 1..Len(message) :
        /\ message[i].form = "word"
        /\ \/ lower(message[i].text) = keyword
           \/ <<lower(message[i].text), keyword>> \in
                  { <<"meetings", "meeting">>, <<"recall", "call">> }

str_capitalize(keyword) ==
    CASE keyword = "meeting" -> "Meeting"
      [] keyword = "call" -> "Call"
      [] keyword = "appointment" -> "Appointment"
      [] keyword = "session" -> "Session"
      [] keyword = "conference" -> "Conference"
      [] OTHER -> "Interview"

FallbackTitle(message) ==
    IF \E k \in 1..Len(title_keywords) : ContainsKeyword(message, title_keywords[k])
    THEN StrVal(str_capitalize(title_keywords[
             CHOOSE k \in 1..Len(title_keywords) :
                 /\ ContainsKeyword(message, title_keywords[k])
                 /\ \A j \in 1..(k - 1) : ~ContainsKeyword(message, title_keywords[j])]))
    ELSE StrVal("Appointment")

\* _simple_entity_extraction(message): only the keys that were found are set
Agent_simple_entity_extraction(message) ==
    LET date == FallbackDate(message)
        time == FallbackTime(message)
        keys == {"title"} \cup (IF date # Null THEN {"date"} ELSE {})
                          \cup (IF time # Null THEN {"time"} ELSE {})
    IN  [k \in keys |-> CASE k = "date" -> date
                          [] k = "time" -> time
                          [] OTHER -> FallbackTitle(message)]

\* dict.get(key, default)
Get(entities, key, default) ==
    IF key \in DOMAIN entities THEN entities[key] ELSE default

\* entities is a dict (json.loads may also return None)
IsMapping(entities) == "kind" \notin DOMAIN entities

(***************************************************************************)
(* CalendarTools and the handlers of CalendarAgent                         *)
(***************************************************************************)
\* Texts returned to the user are records: the kind of the text and the
\* values formatted into it.
Outcome(kind) == [kind |-> kind]

DefaultDuration == 60           \* entities.get('duration', 60)

NumSuggestions == 5             \* suggest_available_times(num_suggestions=5)

UpcomingDays == 7               \* get_upcoming_appointments(days_ahead=7)

\* the ids of the listed events that are not cancelled
RECURSIVE Appointments(_)
Appointments(items) ==
    IF items = <<>> THEN <<>>
    ELSE IF Head(items).status # "cancelled"
         THEN <<Head(items).id>> \o Appointments(Tail(items))
         ELSE Appointments(Tail(items))

\* get_appointments_for_date(date): the day from 00:00 to 23:59:59.999999
Service_get_appointments_for_date(evs, date, httpError) ==
    IF httpError THEN <<>>
    ELSE Appointments(events_list(evs, AppendZ(isoformat(At(DayOf(date), 0, 0))),
                                  AppendZ(isoformat(At(DayOf(date) + 1, 0, 0)))))

\* get_upcoming_appointments(): from now to now + 7 days
Service_get_upcoming_appointments(evs, httpError) ==
    IF httpError THEN <<>>
    ELSE Appointments(events_list(evs, AppendZ(isoformat(Now)),
                                  AppendZ(isoformat(Now + UpcomingDays * MinutesPerDay))))

\* CalendarTools.check_availability(start_time, duration_minutes=60)
Tools_check_availability(evs, start_time, duration_minutes, httpError) ==
    IF Service_check_availability(evs, start_time, start_time + duration_minutes,
                                  httpError)
    THEN [kind |-> "slot_available", at |-> start_time]
    ELSE [kind |-> "slot_not_available", at |-> start_time]

\* variant: the event is created whatever the availability check answered
ProceedsToCreate_Always(is_available) == TRUE

\* CalendarTools.book_appointment, line 60: only an available slot is booked
ProceedsToCreate(is_available) == is_available

\* variant: the availability check covers the default duration only
Tools_book_is_available_DefaultWindow(evs, start_time, end_time, httpError) ==
    Service_check_availability(evs, start_time, start_time + DefaultDuration, httpError)

\* CalendarTools.book_appointment, lines 59-61: the availability check
Tools_book_is_available(evs, start_time, end_time, httpError) ==
    Service_check_availability(evs, start_time, end_time, httpError)

\* CalendarTools.book_appointment, lines 63-77: the creation and its message
Tools_book_create(evs, p, httpError) ==
    LET c == Service_create_event(evs, p.start_time, p.end_time, httpError)
    IN  [events |-> c.events,
         result |-> IF c.raised THEN Outcome("book_error")
                    ELSE [kind |-> "booked", title |-> p.title, at |-> p.start_time,
                          duration |-> p.duration_minutes, status |-> "confirmed"]]

\* CalendarTools.suggest_available_times(date): duration 60, 5 suggestions
Tools_suggest_available_times(evs, date, httpError) ==
    LET available_slots == Service_get_available_slots(evs, date, DefaultDuration,
                                                       httpError)
    IN  IF available_slots = <<>> THEN [kind |-> "no_slots", date |-> DayOf(date)]
        ELSE [kind |-> "slots", date |-> DayOf(date),
              suggestions |-> SubSeq(available_slots, 1,
                                     IF Len(available_slots) < NumSuggestions
                                     THEN Len(available_slots) ELSE NumSuggestions)]

SearchDays == 7                 \* for i in range(7)

\* the loop of find_next_available_slot from day i on; failing: the days on
\* which the store's list call raises
RECURSIVE ScanDays(_, _, _, _, _)
ScanDays(evs, preferred_date, duration_minutes, failing, i) ==
    IF i >= SearchDays THEN Outcome("no_slot_found")
    ELSE LET search_date == preferred_date + i * MinutesPerDay
             available_slots == Service_get_available_slots(
                                    evs, search_date, duration_minutes, i \in failing)
         IN  IF available_slots # <<>>
             THEN [kind |-> "next_slot", slot |-> available_slots[1],
                   date |-> Date(DayOf(search_date))]
             ELSE ScanDays(evs, preferred_date, duration_minutes, failing, i + 1)

\* variant: the search starts on the day after the preferred date
Tools_find_next_available_slot_FromNextDay(evs, preferred_date, duration_minutes, failing) ==
    ScanDays(evs, preferred_date, duration_minutes, failing, 1)

\* CalendarTools.find_next_available_slot(preferred_date, duration_minutes)
Tools_find_next_available_slot(evs, preferred_date, duration_minutes, failing) ==
    ScanDays(evs, preferred_date, duration_minutes, failing, 0)

\* CalendarTools.list_appointments(date)
Tools_list_appointments(evs, date, httpError) ==
    IF Truthy(date)
    THEN IF date.kind # "str" \/ dateutil_parse(date) = Null
         THEN Outcome("list_error")     \* parser.parse raises, caught
         ELSE LET target_date == dateutil_parse(date).t
                  appointments == Service_get_appointments_for_date(
                                      evs, target_date, httpError)
              IN  IF appointments = <<>>
                  THEN [kind |-> "no_appointments", date |-> Date(DayOf(target_date))]
                  ELSE [kind |-> "appointments", date |-> Date(DayOf(target_date)),
                        ids |-> appointments]
    ELSE LET appointments == Service_get_upcoming_appointments(evs, httpError)
         IN  IF appointments = <<>>
             THEN [kind |-> "no_appointments", date |-> StrVal("upcoming")]
             ELSE [kind |-> "appointments", date |-> StrVal("upcoming"),
                   ids |-> appointments]

\* whether list_appointments reaches the calendar store
ListContactsStore(date) ==
    ~Truthy(date) \/ (date.kind = "str" /\ dateutil_parse(date) # Null)

\* variant: only the date is required
MissingDateOrTime_DateOnly(date, time) == ~Truthy(date)

\* "if not date or not time" of the booking and availability handlers
MissingDateOrTime(date, time) == ~Truthy(date) \/ ~Truthy(time)

\* variant: the duration of the entities is ignored
Agent_handle_booking_FixedDuration(entities) ==
    IF ~IsMapping(entities)
    THEN [done |-> TRUE, result |-> [kind |-> "handler_error", handler |-> "booking"]]
    ELSE LET title == Get(entities, "title", StrVal("Appointment"))
             date == Get(entities, "date", Null)
             time == Get(entities, "time", Null)
             booking_datetime == Agent_parse_datetime(date, time)
         IN  IF MissingDateOrTime(date, time)
             THEN [done |-> TRUE, result |-> Outcome("booking_needs_date_and_time")]
             ELSE IF ~Truthy(booking_datetime)
             THEN [done |-> TRUE, result |-> Outcome("booking_datetime_not_understood")]
             ELSE [done |-> FALSE, title |-> title,
                   start_time |-> booking_datetime.t,
                   duration_minutes |-> DefaultDuration]

\* _handle_booking up to the call of the booking tool: either the text it
\* returns at once, or the arguments of book_appointment
Agent_handle_booking(entities) ==
    IF ~IsMapping(entities)
    THEN [done |-> TRUE, result |-> [kind |-> "handler_error", handler |-> "booking"]]
    ELSE LET title == Get(entities, "title", StrVal("Appointment"))
             date == Get(entities, "date", Null)
             time == Get(entities, "time", Null)
             duration == Get(entities, "duration", IntVal(DefaultDuration))
             booking_datetime == Agent_parse_datetime(date, time)
         IN  IF MissingDateOrTime(date, time)
             THEN [done |-> TRUE, result |-> Outcome("booking_needs_date_and_time")]
             ELSE IF ~Truthy(booking_datetime)
             THEN [done |-> TRUE, result |-> Outcome("booking_datetime_not_understood")]
             ELSE [done |-> FALSE, title |-> title,
                   start_time |-> booking_datetime.t,
                   duration_minutes |-> IF Truthy(duration) THEN duration.v
                                        ELSE DefaultDuration]

\* _handle_availability_check up to the call of the tool
Agent_handle_availability_check(entities) ==
    IF ~IsMapping(entities)
    THEN [done |-> TRUE,
          result |-> [kind |-> "handler_error", handler |-> "availability_check"]]
    ELSE LET date == Get(entities, "date", Null)
             time == Get(entities, "time", Null)
             check_datetime == Agent_parse_datetime(date, time)
         IN  IF MissingDateOrTime(date, time)
             THEN [done |-> TRUE, result |-> Outcome("check_needs_date_and_time")]
             ELSE IF ~Truthy(check_datetime)
             THEN [done |-> TRUE, result |-> Outcome("check_datetime_not_understood")]
             ELSE [done |-> FALSE, start_time |-> check_datetime.t]

\* variant: a date that cannot be normalised is taken for today
Agent_handle_time_suggestions_DefaultsToToday(entities) ==
    IF ~IsMapping(entities)
    THEN [done |-> TRUE,
          result |-> [kind |-> "handler_error", handler |-> "time_suggestions"]]
    ELSE LET date == Get(entities, "date", Null)
             target_date == Agent_parse_date(date)
         IN  IF ~Truthy(date)
             THEN [done |-> TRUE, result |-> Outcome("suggest_needs_date")]
             ELSE IF ~Truthy(target_date)
             THEN [done |-> FALSE, date |-> At(Today, 0, 0)]
             ELSE [done |-> FALSE, date |-> target_date.t]

\* _handle_time_suggestions up to the call of the tool
Agent_handle_time_suggestions(entities) ==
    IF ~IsMapping(entities)
    THEN [done |-> TRUE,
          result |-> [kind |-> "handler_error", handler |-> "time_suggestions"]]
    ELSE LET date == Get(entities, "date", Null)
             target_date == Agent_parse_date(date)
         IN  IF ~Truthy(date)
             THEN [done |-> TRUE, result |-> Outcome("suggest_needs_date")]
             ELSE IF ~Truthy(target_date)
             THEN [done |-> TRUE, result |-> Outcome("suggest_date_not_understood")]
             ELSE [done |-> FALSE, date |-> target_date.t]

\* variant: the cancellation text names the appointment of the entities
Agent_handle_cancellation_Titled(entities) ==
    [kind |-> "cancellation_not_implemented",
     title |-> IF IsMapping(entities) THEN Get(entities, "title", Null) ELSE Null]

\* _handle_cancellation, _handle_modification and the else branch of _use_tools
Agent_handle_cancellation(entities) == Outcome("cancellation_not_implemented")

Agent_handle_modification(entities) == Outcome("modification_not_implemented")

CapabilitySummary == Outcome("capabilities")

(***************************************************************************)
(* The request pipeline: state of a run                                    *)
(***************************************************************************)
Runs == {1, 2}          \* concurrent runs of process_message

\* process_message: initial_state, before the message is filled in
default_state ==
    [user_message |-> Null, intent |-> Null, entities |-> << >>,
     tool_results |-> Null, response |-> Null, error |-> Null]

NoPending == [start_time |-> Null, end_time |-> Null]

Init ==
    /\ events = <<>>
    /\ svc = NoQuery
    /\ state = [r \in Runs |-> default_state]
    /\ pc = [r \in Runs |-> "idle"]
    /\ pending = [r \in Runs |-> NoPending]
    /\ calls = [r \in Runs |-> <<>>]
    /\ reply = [r \in Runs |-> Null]

pipelineVars == <<state, pc, pending, calls, reply>>

(***************************************************************************)
(* The request pipeline: the nodes of the graph                            *)
(***************************************************************************)
\* a call of the language model by a node; failed: the call raised
LlmCall(node, failed) == [to |-> "llm", op |-> node, failed |-> failed]

ServiceCall(op, a, b, result, store) ==
    [to |-> "calendar", op |-> op, a |-> a, b |-> b, result |-> result,
     store |-> store]

\* a call of the language model that returned content
LlmReply(node, content) ==
    [to |-> "llm", op |-> node, failed |-> FALSE, content |-> content]

\* the conditional edges of the graph: handle_error when the error is set
NextNode(st, node) == IF Truthy(st.error) THEN "handle_error" ELSE node

\* process_message(message): the run starts at the entry point
ProcessMessage(r, message) ==
    /\ pc[r] = "idle"
    /\ state' = [state EXCEPT ![r] = [default_state EXCEPT !.user_message = message]]
    /\ pc' = [pc EXCEPT ![r] = "understand_intent"]
    /\ UNCHANGED <<events, svc, pending, calls, reply>>

\* variant: a failed classification is taken for a general query
UnderstandIntent_DefaultsToGeneral(r, content, llmFails) ==
    /\ pc[r] = "understand_intent"
    /\ state' = [state EXCEPT ![r].intent =
                    IF llmFails THEN StrVal("general_query")
                    ELSE StrVal(lower(content))]
    /\ calls' = [calls EXCEPT ![r] = Append(@, LlmCall("understand_intent", llmFails))]
    /\ pc' = [pc EXCEPT ![r] = "extract_entities"]
    /\ UNCHANGED <<events, svc, pending, reply>>

\* _understand_intent; content: the reply of the language model, llmFails:
\* the call raises
UnderstandIntent(r, content, llmFails) ==
    /\ pc[r] = "understand_intent"
    /\ state' = [state EXCEPT ![r] =
                    IF llmFails
                    THEN [@ EXCEPT !.error = StrVal("Failed to understand your request")]
                    ELSE [@ EXCEPT !.intent = StrVal(lower(content))]]
    /\ calls' = [calls EXCEPT ![r] = Append(@, LlmCall("understand_intent", llmFails))]
    /\ pc' = [pc EXCEPT ![r] = "extract_entities"]
    /\ UNCHANGED <<events, svc, pending, reply>>

\* the entities _extract_entities stores for a reply of the language model
Agent_entities_of(message, content) ==
    LET parsed == json_loads(Agent_clean_json_response(content))
    IN  IF parsed.ok THEN parsed.value
        ELSE Agent_simple_entity_extraction(message)

\* variant: the language model is asked although the error is set
ExtractEntities_IgnoresError(r, content, llmFails) ==
    /\ pc[r] = "extract_entities"
    /\ state' = [state EXCEPT ![r] =
             IF llmFails
             THEN [@ EXCEPT !.error =
                       StrVal("Failed to extract information from your message")]
             ELSE [@ EXCEPT !.entities =
                       Agent_entities_of(state[r].user_message, content)]]
    /\ calls' = [calls EXCEPT ![r] =
            Append(@, IF llmFails THEN LlmCall("extract_entities", TRUE)
                      ELSE LlmReply("extract_entities", content))]
    /\ pc' = [pc EXCEPT ![r] = NextNode(state'[r], "use_tools")]
    /\ UNCHANGED <<events, svc, pending, reply>>

\* _extract_entities
ExtractEntities(r, content, llmFails) ==
    /\ pc[r] = "extract_entities"
    /\ IF Truthy(state[r].error)
       THEN UNCHANGED <<state, calls>>
       ELSE /\ state' = [state EXCEPT ![r] =
                    IF llmFails
                    THEN [@ EXCEPT !.error =
                              StrVal("Failed to extract information from your message")]
                    ELSE [@ EXCEPT !.entities =
                              Agent_entities_of(state[r].user_message, content)]]
            /\ calls' = [calls EXCEPT ![r] =
                   Append(@, IF llmFails THEN LlmCall("extract_entities", TRUE)
                             ELSE LlmReply("extract_entities", content))]
    /\ pc' = [pc EXCEPT ![r] = NextNode(state'[r], "use_tools")]
    /\ UNCHANGED <<events, svc, pending, reply>>

\* variant: the result of the handler is not stored in the state
Finish_DropsResult(r, result, newCalls) ==
    /\ calls' = [calls EXCEPT ![r] = @ \o newCalls]
    /\ pc' = [pc EXCEPT ![r] = NextNode(state[r], "generate_response")]
    /\ UNCHANGED <<events, svc, state, pending, reply>>

\* _use_tools stores the result of the handler and leaves for the next node
Finish(r, result, newCalls) ==
    /\ state' = [state EXCEPT ![r].tool_results = result]
    /\ calls' = [calls EXCEPT ![r] = @ \o newCalls]
    /\ pc' = [pc EXCEPT ![r] = NextNode(state'[r], "generate_response")]
    /\ UNCHANGED <<events, svc, pending, reply>>

\* _use_tools with intent book_appointment: the handler and the booking tool
\* up to the answer of the availability check
UseBooking(r, httpError) ==
    LET req == Agent_handle_booking(state[r].entities)
        end_time == req.start_time + req.duration_minutes
        available == Tools_book_is_available(events, req.start_time, end_time,
                                             httpError)
        call == ServiceCall("check_availability", req.start_time, end_time,
                            available, TRUE)
    IN  IF req.done THEN Finish(r, req.result, <<>>)
        ELSE IF ~ProceedsToCreate(available)
        THEN Finish(r, [kind |-> "not_available", at |-> req.start_time], <<call>>)
        ELSE /\ pending' = [pending EXCEPT ![r] =
                    [title |-> req.title, start_time |-> req.start_time,
                     end_time |-> end_time,
                     duration_minutes |-> req.duration_minutes]]
             /\ calls' = [calls EXCEPT ![r] = Append(@, call)]
             /\ pc' = [pc EXCEPT ![r] = "create_event"]
             /\ UNCHANGED <<events, svc, state, reply>>

UseAvailabilityCheck(r, httpError) ==
    LET req == Agent_handle_availability_check(state[r].entities)
        result == Tools_check_availability(events, req.start_time, DefaultDuration,
                                           httpError)
    IN  IF req.done THEN Finish(r, req.result, <<>>)
        ELSE Finish(r, result,
                    <<ServiceCall("check_availability", req.start_time,
                                  req.start_time + DefaultDuration,
                                  result.kind = "slot_available", TRUE)>>)

UseTimeSuggestions(r, httpError) ==
    LET req == Agent_handle_time_suggestions(state[r].entities)
        result == Tools_suggest_available_times(events, req.date, httpError)
    IN  IF req.done THEN Finish(r, req.result, <<>>)
        ELSE Finish(r, result,
                    <<ServiceCall("get_available_slots", req.date, DefaultDuration,
                                  result, IsBusinessDay(req.date))>>)

UseListAppointments(r, httpError) ==
    LET entities == state[r].entities
        date == Get(entities, "date", Null)
        result == Tools_list_appointments(events, date, httpError)
    IN  IF ~IsMapping(entities)
        THEN Finish(r, [kind |-> "handler_error", handler |-> "list_appointments"],
                    <<>>)
        ELSE IF ~ListContactsStore(date) THEN Finish(r, result, <<>>)
        ELSE Finish(r, result,
                    <<ServiceCall("list_appointments", date, Null, result, TRUE)>>)

\* _use_tools: the dispatch on the intent; httpError: the store's list call
\* raises
UseTools(r, httpError) ==
    /\ pc[r] = "use_tools"
    /\ LET intent == state[r].intent.text
           entities == state[r].entities
       IN  CASE intent = "book_appointment" -> UseBooking(r, httpError)
             [] intent = "check_availability" -> UseAvailabilityCheck(r, httpError)
             [] intent = "suggest_times" -> UseTimeSuggestions(r, httpError)
             [] intent = "list_appointments" -> UseListAppointments(r, httpError)
             [] intent = "cancel_appointment" ->
                    Finish(r, Agent_handle_cancellation(entities), <<>>)
             [] intent = "modify_appointment" ->
                    Finish(r, Agent_handle_modification(entities), <<>>)
             [] OTHER -> Finish(r, CapabilitySummary, <<>>)

\* variant: the exception of create_event reaches _use_tools, which sets the
\* error
CreateEvent_Raises(r, httpError) ==
    /\ pc[r] = "create_event"
    /\ LET c == Tools_book_create(events, pending[r], httpError)
       IN  /\ events' = c.events
           /\ state' = [state EXCEPT ![r] =
                  IF httpError
                  THEN [@ EXCEPT !.error = StrVal("Error executing calendar operation")]
                  ELSE [@ EXCEPT !.tool_results = c.result]]
           /\ calls' = [calls EXCEPT ![r] =
                  Append(@, ServiceCall("create_event", pending[r].start_time,
                                        pending[r].end_time, c.result, TRUE))]
    /\ pending' = [pending EXCEPT ![r] = NoPending]
    /\ pc' = [pc EXCEPT ![r] = NextNode(state'[r], "generate_response")]
    /\ UNCHANGED <<svc, reply>>

\* the booking tool after an affirmative availability check: create_event;
\* httpError: the store's insert call raises
CreateEvent(r, httpError) ==
    /\ pc[r] = "create_event"
    /\ LET c == Tools_book_create(events, pending[r], httpError)
       IN  /\ events' = c.events
           /\ state' = [state EXCEPT ![r].tool_results = c.result]
           /\ calls' = [calls EXCEPT ![r] =
                  Append(@, ServiceCall("create_event", pending[r].start_time,
                                        pending[r].end_time, c.result, TRUE))]
    /\ pending' = [pending EXCEPT ![r] = NoPending]
    /\ pc' = [pc EXCEPT ![r] = NextNode(state'[r], "generate_response")]
    /\ UNCHANGED <<svc, reply>>

\* response.content of the phrasing call: the empty string, or prose about
\* the tool results
ResponseContent(content, tool_results) ==
    IF content = "" THEN StrVal("")
    ELSE [kind |-> "prose", about |-> tool_results]

\* variant: a failure of the phrasing call is recorded as the error of the run
GenerateResponse_Fails(r, content, llmFails) ==
    /\ pc[r] = "generate_response"
    /\ IF Truthy(state[r].error)
       THEN UNCHANGED <<state, calls>>
       ELSE /\ state' = [state EXCEPT ![r] =
                    IF llmFails
                    THEN [@ EXCEPT !.error = StrVal("Failed to generate a response")]
                    ELSE [@ EXCEPT !.response =
                              ResponseContent(content, state[r].tool_results)]]
            /\ calls' = [calls EXCEPT ![r] =
                   Append(@, LlmCall("generate_response", llmFails))]
    /\ pc' = [pc EXCEPT ![r] = "END"]
    /\ UNCHANGED <<events, svc, pending, reply>>

\* _generate_response; content: the reply of the language model, llmFails:
\* the call raises and the tool result is the response
GenerateResponse(r, content, llmFails) ==
    /\ pc[r] = "generate_response"
    /\ IF Truthy(state[r].error)
       THEN UNCHANGED <<state, calls>>
       ELSE /\ state' = [state EXCEPT ![r].response =
                    IF llmFails THEN state[r].tool_results
                    ELSE ResponseContent(content, state[r].tool_results)]
            /\ calls' = [calls EXCEPT ![r] = Append(@, LlmCall("generate_response", llmFails))]
    /\ pc' = [pc EXCEPT ![r] = "END"]
    /\ UNCHANGED <<events, svc, pending, reply>>

\* _handle_error
HandleError(r) ==
    /\ pc[r] = "handle_error"
    /\ state' = [state EXCEPT ![r].response =
                    [kind |-> "apology_issue", error |-> state[r].error]]
    /\ pc' = [pc EXCEPT ![r] = "END"]
    /\ UNCHANGED <<events, svc, pending, calls, reply>>

\* process_message: what is returned once the graph has ended
Return(r) ==
    /\ pc[r] = "END"
    /\ reply' = [reply EXCEPT ![r] =
                    IF Truthy(state[r].error)
                    THEN [kind |-> "apology_error", error |-> state[r].error]
                    ELSE state[r].response]
    /\ pc' = [pc EXCEPT ![r] = "returned"]
    /\ UNCHANGED <<events, svc, state, pending, calls>>

(***************************************************************************)
(* Inputs of the pipeline runs                                             *)
(***************************************************************************)
TwoPm == TimeStr(2, FALSE, 0, "pm")

Messages ==
    { <<StrVal("book"), StrVal("meeting"), StrVal("Tomorrow"), TwoPm>>,
      <<StrVal("hello")>> }

Intents ==
    { "book_appointment", "check_availability", "suggest_times",
      "cancel_appointment", "modify_appointment", "list_appointments",
      "general_query" }

\* replies of the language model to the intent prompt
IntentReplies == Intents \cup { "Book_Appointment", "what a nice day" }

FullBag ==
    [title |-> StrVal("Meeting"), date |-> StrVal("tomorrow"), time |-> TwoPm,
     duration |-> Null, description |-> Null, participant |-> Null]

HalfHourBag ==
    [title |-> StrVal("Call"), date |-> NumDate(2024, "-", 1, 12),
     time |-> TimeStr(14, TRUE, 0, ""), duration |-> IntVal(30),
     description |-> StrVal("weekly"), participant |-> Null]

TwoHourBag ==
    [HalfHourBag EXCEPT !.time = TimeStr(13, TRUE, 0, ""), !.duration = IntVal(120)]

Bags ==
    { FullBag, HalfHourBag, TwoHourBag,
      [FullBag EXCEPT !.time = Null],
      [time |-> TwoPm],
      [date |-> StrVal("someday"), time |-> TwoPm],
      [date |-> StrVal("tomorrow"), time |-> TimeStr(25, TRUE, 0, "")],
      [FullBag EXCEPT !.date = NumDate(2024, "-", 1, 13)] }

JsonObject(bag) == [fence |-> FALSE, prose |-> FALSE,
                    body |-> [json |-> "object", value |-> bag]]

\* replies of the language model to the entity prompt
EntityReplies ==
    { JsonObject(b) : b \in Bags } \cup
    { [JsonObject(FullBag) EXCEPT !.fence = TRUE, !.prose = TRUE],
      [fence |-> TRUE, prose |-> TRUE, body |-> [json |-> "malformed"]],
      [fence |-> FALSE, prose |-> FALSE, body |-> [json |-> "null"]],
      [fence |-> FALSE, prose |-> TRUE, body |-> [json |-> "none"]] }

\* replies of the language model to the phrasing prompt
PhrasingReplies == { "prose", "" }

\* events other users add while a request is processed
PipelineWindows == { <<At(BizDay, 14, 30), At(BizDay, 15, 30), FALSE>> }

\* one run of the pipeline on every input, while the store changes under it
Next ==
    \/ \E m \in Messages : ProcessMessage(1, m)
    \/ \E c \in IntentReplies, llmFails \in BOOLEAN : UnderstandIntent(1, c, llmFails)
    \/ \E c \in EntityReplies, llmFails \in BOOLEAN : ExtractEntities(1, c, llmFails)
    \/ \E httpError \in BOOLEAN : UseTools(1, httpError)
    \/ \E httpError \in BOOLEAN : CreateEvent(1, httpError)
    \/ \E c \in PhrasingReplies, llmFails \in BOOLEAN : GenerateResponse(1, c, llmFails)
    \/ HandleError(1)
    \/ Return(1)
    \/ \E w \in PipelineWindows : StoreAddEvent(w) /\ UNCHANGED pipelineVars
    \/ \E i \in 1..MaxEvents : StoreCancelEvent(i) /\ UNCHANGED pipelineVars

Spec == Init /\ [][Next]_vars

\* replies of the language model in the concurrent runs: bookings of
\* overlapping windows
BookingReplies == { JsonObject(FullBag), JsonObject(HalfHourBag) }

\* the runs of Runs side by side, each booking (suspension at every
\* collaborator call)
NextConcurrent ==
    \E r \in Runs :
        \/ ProcessMessage(r, <<StrVal("book"), StrVal("meeting")>>)
        \/ \E llmFails \in BOOLEAN : UnderstandIntent(r, "book_appointment", llmFails)
        \/ \E c \in BookingReplies, llmFails \in BOOLEAN : ExtractEntities(r, c, llmFails)
        \/ \E httpError \in BOOLEAN : UseTools(r, httpError)
        \/ \E httpError \in BOOLEAN : CreateEvent(r, httpError)
        \/ \E c \in PhrasingReplies, llmFails \in BOOLEAN : GenerateResponse(r, c, llmFails)
        \/ HandleError(r)
        \/ Return(r)

SpecConcurrent == Init /\ [][NextConcurrent]_vars

\* replies of the language model in the serial runs: bookings of windows
\* that overlap and of one that does not
SerialReplies ==
    BookingReplies \cup
    { JsonObject(TwoHourBag),
      JsonObject([HalfHourBag EXCEPT !.time = TimeStr(15, TRUE, 0, "")]) }

\* no other run is between its availability check and its creation
NoneBetweenCheckAndCreate(r) == \A q \in Runs \ {r} : pc[q] # "create_event"

\* the runs of Runs booking one after another: a run asks for availability
\* only while no other run is between its check and its creation
NextSerial ==
    \E r \in Runs :
        \/ ProcessMessage(r, <<StrVal("book"), StrVal("meeting")>>)
        \/ \E llmFails \in BOOLEAN : UnderstandIntent(r, "book_appointment", llmFails)
        \/ \E c \in SerialReplies, llmFails \in BOOLEAN : ExtractEntities(r, c, llmFails)
        \/ \E httpError \in BOOLEAN :
               NoneBetweenCheckAndCreate(r) /\ UseTools(r, httpError)
        \/ \E httpError \in BOOLEAN : CreateEvent(r, httpError)
        \/ \E c \in PhrasingReplies, llmFails \in BOOLEAN : GenerateResponse(r, c, llmFails)
        \/ HandleError(r)
        \/ Return(r)

SpecSerial == Init /\ [][NextSerial]_vars

\* the days of the search on which the store fails
FailingDays == { {}, {0}, {0, 3}, 0..6 }

\* find_next_available_slot called directly
CallFindNextAvailableSlot(date, duration_minutes, failing) ==
    /\ svc' = [op |-> "find_next_available_slot", a |-> date, b |-> duration_minutes,
               failing |-> failing,
               result |-> Tools_find_next_available_slot(events, date,
                                                         duration_minutes, failing)]
    /\ UNCHANGED events

NextService ==
    \/ \E w \in EventWindows : StoreAddEvent(w) /\ UNCHANGED pipelineVars
    \/ \E i \in 1..MaxEvents : StoreCancelEvent(i) /\ UNCHANGED pipelineVars
    \/ \E w \in QueryWindows, httpError \in BOOLEAN :
          CallCreateEvent(w, httpError) /\ UNCHANGED pipelineVars
    \/ \E w \in QueryWindows, httpError \in BOOLEAN :
          CallCheckAvailability(w, httpError) /\ UNCHANGED pipelineVars
    \/ \E date \in QueryDates, d \in QueryDurations, httpError \in BOOLEAN :
          CallGetAvailableSlots(date, d, httpError) /\ UNCHANGED pipelineVars

\* the service queried directly while the store changes under it
SpecService == Init /\ [][NextService]_vars

\* the events other users add while the next free slot is searched: a whole
\* Friday, an hour of that Friday, the whole Monday after
SearchWindows ==
    { <<At(BizDay, 0, 0), At(BizDay + 1, 0, 0), TRUE>>,
      <<At(BizDay, 10, 0), At(BizDay, 11, 0), FALSE>>,
      <<At(BizDay + 3, 0, 0), At(BizDay + 4, 0, 0), TRUE>> }

NextSearch ==
    \/ \E w \in SearchWindows : StoreAddEvent(w) /\ UNCHANGED pipelineVars
    \/ \E i \in 1..MaxEvents : StoreCancelEvent(i) /\ UNCHANGED pipelineVars
    \/ \E date \in QueryDates, d \in QueryDurations, failing \in FailingDays :
          CallFindNextAvailableSlot(date, d, failing) /\ UNCHANGED pipelineVars

\* the search for the next free slot while the store changes under it
SpecSearch == Init /\ [][NextSearch]_vars

(***************************************************************************)
(* get_available_slots step by step: one action per loop test              *)
(***************************************************************************)
\* the list of emitted slots is followed up to this length
MaxSlots == 20

\* duration_minutes is an int without a check: negative, zero, positive
WalkDurations == { -30, 0, 30, 60 }

WalkWindows ==
    { <<At(BizDay, 10, 0), At(BizDay, 11, 0), FALSE>>,
      <<At(BizDay, 12, 0), At(BizDay, 12, 30), FALSE>>,
      <<At(BizDay, 16, 30), At(BizDay, 18, 0), FALSE>> }

InWalk == svc.op = "get_available_slots_steps"

\* lines 150-202: up to the first loop (the list call succeeds)
BeginSlots(date, duration_minutes) ==
    /\ InWalk => svc.loop = "returned"
    /\ LET start_of_day == replace_hour(date, BUSINESS_START_HOUR)
           end_of_day == replace_hour(date, BUSINESS_END_HOUR)
           items == events_list(events, AppendZ(isoformat(start_of_day)),
                                AppendZ(isoformat(end_of_day)))
       IN  svc' = [op |-> "get_available_slots_steps", date |-> date,
                   duration_minutes |-> duration_minutes,
                   busy_times |-> IF IsBusinessDay(date)
                                  THEN SortByStart(BusyTimes(items)) ELSE <<>>,
                   i |-> 1,
                   loop |-> IF IsBusinessDay(date) THEN "for" ELSE "returned",
                   current_time |-> start_of_day,
                   available_slots |-> <<>>,
                   result |-> <<>>]
    /\ UNCHANGED events

\* lines 204-206 and 213: the next busy period, when no slot fits before it
ForNext ==
    /\ InWalk /\ svc.loop = "for" /\ svc.i <= Len(svc.busy_times)
    /\ LET busy_start == svc.busy_times[svc.i][1]
           busy_end == svc.busy_times[svc.i][2]
       IN  IF busy_start - svc.current_time
                 >= svc.duration_minutes + BOOKING_BUFFER_MINUTES
           THEN svc' = [svc EXCEPT !.loop = "while_before"]
           ELSE svc' = [svc EXCEPT !.current_time = MoveAfter(svc.current_time, busy_end),
                                   !.i = svc.i + 1]
    /\ UNCHANGED events

\* line 204: the busy periods are exhausted
ForDone ==
    /\ InWalk /\ svc.loop = "for" /\ svc.i > Len(svc.busy_times)
    /\ svc' = [svc EXCEPT !.loop = "while_after"]
    /\ UNCHANGED events

\* lines 208-210: one iteration of the loop before a busy period
BeforeIterate ==
    /\ InWalk /\ svc.loop = "while_before"
    /\ FitsBefore(svc.current_time, svc.duration_minutes, svc.busy_times[svc.i][1])
    /\ Len(svc.available_slots) < MaxSlots
    /\ svc' = [svc EXCEPT !.available_slots = Append(@, strftime_IMp(svc.current_time)),
                          !.current_time = @ + svc.duration_minutes]
    /\ UNCHANGED events

\* lines 208 and 213: the loop before a busy period is left
BeforeExit ==
    /\ InWalk /\ svc.loop = "while_before"
    /\ ~FitsBefore(svc.current_time, svc.duration_minutes, svc.busy_times[svc.i][1])
    /\ svc' = [svc EXCEPT !.current_time = MoveAfter(@, svc.busy_times[svc.i][2]),
                          !.i = @ + 1, !.loop = "for"]
    /\ UNCHANGED events

\* lines 216-218: one iteration of the loop after the last busy period
AfterIterate ==
    /\ InWalk /\ svc.loop = "while_after"
    /\ FitsInDay(svc.current_time, svc.duration_minutes,
                 replace_hour(svc.date, BUSINESS_END_HOUR))
    /\ Len(svc.available_slots) < MaxSlots
    /\ svc' = [svc EXCEPT !.available_slots = Append(@, strftime_IMp(svc.current_time)),
                          !.current_time = @ + svc.duration_minutes]
    /\ UNCHANGED events

\* lines 216 and 221: the last loop is left and the slots are returned
AfterExit ==
    /\ InWalk /\ svc.loop = "while_after"
    /\ ~FitsInDay(svc.current_time, svc.duration_minutes,
                  replace_hour(svc.date, BUSINESS_END_HOUR))
    /\ svc' = [svc EXCEPT !.loop = "returned", !.result = Truncate(svc.available_slots)]
    /\ UNCHANGED events

NextWalk ==
    \/ \E w \in WalkWindows :
          (InWalk => svc.loop = "returned") /\ StoreAddEvent(w) /\ UNCHANGED pipelineVars
    \/ \E i \in 1..MaxEvents :
          (InWalk => svc.loop = "returned") /\ StoreCancelEvent(i) /\ UNCHANGED pipelineVars
    \/ \E date \in QueryDates, d \in WalkDurations :
          BeginSlots(date, d) /\ UNCHANGED pipelineVars
    \/ ForNext /\ UNCHANGED pipelineVars
    \/ ForDone /\ UNCHANGED pipelineVars
    \/ BeforeIterate /\ UNCHANGED pipelineVars
    \/ BeforeExit /\ UNCHANGED pipelineVars
    \/ AfterIterate /\ UNCHANGED pipelineVars
    \/ AfterExit /\ UNCHANGED pipelineVars

\* one call of get_available_slots at a time, followed through its loops
SpecWalk == Init /\ [][NextWalk]_vars

(***************************************************************************)
(* Properties of the pipeline (checked under Spec and SpecConcurrent)      *)
(***************************************************************************)
CalendarCalls(r) ==
    { k \in 1..Len(calls[r]) : calls[r][k].to = "calendar" }

CallsOf(r, op) == { k \in CalendarCalls(r) : calls[r][k].op = op }

IntentOf(r) ==
    IF state[r].intent = Null THEN "" ELSE state[r].intent.text

\* the run has left _use_tools without an error
Dispatched(r) ==
    pc[r] \in {"generate_response", "END", "returned"} /\ ~Truthy(state[r].error)

\* C1: create is invoked only after is_available returned true earlier in
\* the same run for the same window; when is_available returned false the
\* booking run ends in the not-available outcome and create is not invoked
C1_CreateOnlyAfterAvailable ==
    \A r \in Runs :
        /\ \A k \in CallsOf(r, "create_event") :
              \E j \in CallsOf(r, "check_availability") :
                  /\ j < k
                  /\ calls[r][j].result = TRUE
                  /\ calls[r][j].a = calls[r][k].a
                  /\ calls[r][j].b = calls[r][k].b
        /\ \A j \in CallsOf(r, "check_availability") :
              (IntentOf(r) = "book_appointment" /\ calls[r][j].result = FALSE) =>
                  /\ CallsOf(r, "create_event") = {}
                  /\ pc[r] # "create_event"
                  /\ state[r].tool_results
                         = [kind |-> "not_available", at |-> calls[r][j].a]

\* a booking run was refused because an event of the store overlaps its
\* window (the store answered), and created nothing
C1_Witness ==
    /\ IntentOf(1) = "book_appointment"
    /\ pc[1] = "returned"
    /\ state[1].tool_results.kind = "not_available"
    /\ \E j \in CallsOf(1, "check_availability") :
          /\ calls[1][j].result = FALSE
          /\ (\E i \in 1..Len(events) : events[i].status # "cancelled"
                 /\ events[i].start < calls[1][j].b /\ events[i].end > calls[1][j].a)
    /\ CallsOf(1, "create_event") = {}

\* the runs that booked: their create call returned the created event
Booked(r) ==
    \E k \in CallsOf(r, "create_event") : calls[r][k].result.kind = "booked"

DuplicateBooking ==
    \E i, j \in 1..Len(events) :
        /\ i # j
        /\ events[i].status # "cancelled" /\ events[j].status # "cancelled"
        /\ events[i].start < events[j].end /\ events[j].start < events[i].end

\* C2: nothing makes is_available and create atomic: when two concurrent
\* booking runs of overlapping windows on an initially free calendar have
\* both observed availability and both created, the store holds two
\* overlapping events
C2_BothCreateLeavesDuplicate ==
    (\A r \in Runs : Booked(r)) => DuplicateBooking

\* the interleaving: both runs were told the window is free before either
\* created, both created, and the store holds the duplicate
C2_Witness ==
    /\ \A r \in Runs :
          /\ Booked(r)
          /\ \E j \in CallsOf(r, "check_availability") : calls[r][j].result = TRUE
          /\ pc[r] = "returned"
    /\ Len(events) = 2
    /\ DuplicateBooking

IsMissing(entities, field) == ~Truthy(Get(entities, field, Null))

\* C9: book_appointment and check_availability with date or time missing,
\* and suggest_times with date missing, return the clarification outcome and
\* make no call to the calendar store in that run
C9_MissingFieldsShortCircuit ==
    \A r \in Runs :
        LET e == state[r].entities
            missing ==
                /\ IsMapping(e)
                /\ \/ /\ IntentOf(r) \in {"book_appointment", "check_availability"}
                      /\ (IsMissing(e, "date") \/ IsMissing(e, "time"))
                   \/ /\ IntentOf(r) = "suggest_times"
                      /\ IsMissing(e, "date")
        IN  missing =>
                /\ CalendarCalls(r) = {}
                /\ pc[r] # "create_event"
                /\ Dispatched(r) =>
                      state[r].tool_results =
                          CASE IntentOf(r) = "book_appointment" ->
                                   Outcome("booking_needs_date_and_time")
                            [] IntentOf(r) = "check_availability" ->
                                   Outcome("check_needs_date_and_time")
                            [] OTHER -> Outcome("suggest_needs_date")

\* a booking run whose entities carry a date and no time has been answered
\* with the clarification
C9_Witness ==
    /\ IntentOf(1) = "book_appointment"
    /\ IsMapping(state[1].entities)
    /\ ~IsMissing(state[1].entities, "date")
    /\ IsMissing(state[1].entities, "time")
    /\ pc[1] = "returned"
    /\ state[1].tool_results = Outcome("booking_needs_date_and_time")

StoreIntents ==
    {"book_appointment", "check_availability", "suggest_times", "list_appointments"}

FixedOutcome(intent) ==
    CASE intent = "cancel_appointment" -> Outcome("cancellation_not_implemented")
      [] intent = "modify_appointment" -> Outcome("modification_not_implemented")
      [] OTHER -> CapabilitySummary

\* C10: for cancel_appointment, modify_appointment, general_query and every
\* classifier output outside the intent set, the dispatch step contacts no
\* collaborator, stores the outcome fixed by the intent alone (the one of
\* general_query for an unrecognised output) and leaves the error unset
C10_FixedOutcomeNoStore ==
    [][ \A r \in Runs :
          (pc[r] = "use_tools" /\ pc'[r] # "use_tools"
              /\ IntentOf(r) \notin StoreIntents) =>
             /\ state'[r].tool_results = FixedOutcome(IntentOf(r))
             /\ state'[r].tool_results
                    = (IF IntentOf(r) \in Intents THEN FixedOutcome(IntentOf(r))
                       ELSE FixedOutcome("general_query"))
             /\ state'[r].error = Null
             /\ pc'[r] = "generate_response"
             /\ calls'[r] = calls[r]
             /\ events' = events ]_vars

\* a run whose classifier output is outside the intent set has been answered
\* with the capability summary while the store holds an event
C10_Witness ==
    /\ IntentOf(1) = "what a nice day"
    /\ IsMapping(state[1].entities) /\ ~IsMissing(state[1].entities, "date")
    /\ pc[1] = "returned"
    /\ state[1].tool_results = CapabilitySummary
    /\ CalendarCalls(1) = {}
    /\ Len(events) > 0

(***************************************************************************)
(* Properties of the availability engine (checked under SpecService)       *)
(***************************************************************************)
BusinessStart(date) == At(DayOf(date), BUSINESS_START_HOUR, 0)

BusinessEnd(date) == At(DayOf(date), BUSINESS_END_HOUR, 0)

\* the instant a slot label of the given date stands for
SlotStart(date, label) ==
    At(DayOf(date), (label.I % 12) + (IF label.p = "PM" THEN 12 ELSE 0), label.M)

SlotStarts(date, slots) == [i \in 1..Len(slots) |-> SlotStart(date, slots[i])]

\* the busy intervals of a date: the events of the store that are not
\* cancelled and overlap the business window
BusyIndices(evs, date) ==
    { i \in 1..Len(evs) : /\ evs[i].status # "cancelled"
                          /\ evs[i].end > BusinessStart(date)
                          /\ evs[i].start < BusinessEnd(date) }

Overlaps(s, e, bStart, bEnd) == bStart < e /\ bEnd > s

SlotsQuery == svc.op = "get_available_slots"

\* the busy intervals in ascending order of start
RECURSIVE SortedBusy(_, _)
SortedBusy(evs, idx) ==
    IF idx = {} THEN <<>>
    ELSE LET i == CHOOSE i \in idx : \A j \in idx : evs[i].start <= evs[j].start
         IN  <<<<evs[i].start, evs[i].end>>>> \o SortedBusy(evs, idx \ {i})

\* while cursor + duration + gap <= limit: emit cursor, advance by duration
RECURSIVE EmitWhile(_, _, _, _, _)
EmitWhile(cursor, out, duration, gap, limit) ==
    IF cursor + duration + gap <= limit
    THEN EmitWhile(cursor + duration, Append(out, cursor), duration, gap, limit)
    ELSE [cursor |-> cursor, out |-> out]

RECURSIVE GreedyWalk(_, _, _, _, _)
GreedyWalk(cursor, out, busy, duration, businessEnd) ==
    IF busy = <<>>
    THEN EmitWhile(cursor, out, duration, 0, businessEnd).out
    ELSE LET g == EmitWhile(cursor, out, duration, BOOKING_BUFFER_MINUTES,
                            Head(busy)[1])
         IN  GreedyWalk(Max(g.cursor, Head(busy)[2] + BOOKING_BUFFER_MINUTES),
                        g.out, Tail(busy), duration, businessEnd)

FirstN(seq, n) == SubSeq(seq, 1, IF Len(seq) < n THEN Len(seq) ELSE n)

GreedySlots(evs, date, duration) ==
    FirstN(GreedyWalk(BusinessStart(date), <<>>,
                      SortedBusy(evs, BusyIndices(evs, date)),
                      duration, BusinessEnd(date)),
           MAX_SUGGESTIONS)

\* C3: on a business day free_slots is the greedy walk over the busy
\* intervals the store returned (sorted by start, cursor from businessStart,
\* buffer before and after each busy interval, none at the end of the day),
\* truncated to the maximum number of suggestions; with one busy interval
\* 10:00-11:00 and duration 60 it is 11:15, 12:15, 13:15, 14:15, 15:15
C3_GreedyWalk ==
    (SlotsQuery /\ weekday(svc.a) \in BUSINESS_DAYS /\ ~svc.httpError) =>
        /\ SlotStarts(svc.a, svc.slots) = GreedySlots(events, svc.a, svc.b)
        /\ ( /\ svc.b = 60
             /\ { <<events[i].start, events[i].end>> : i \in BusyIndices(events, svc.a) }
                    = { <<At(DayOf(svc.a), 10, 0), At(DayOf(svc.a), 11, 0)>> } )
              => SlotStarts(svc.a, svc.slots)
                     = << At(DayOf(svc.a), 11, 15), At(DayOf(svc.a), 12, 15),
                          At(DayOf(svc.a), 13, 15), At(DayOf(svc.a), 14, 15),
                          At(DayOf(svc.a), 15, 15) >>

\* the scenario: 09:00-17:00, buffer 15, duration 60, one busy interval
\* 10:00-11:00, five slots returned
C3_Witness ==
    /\ SlotsQuery /\ ~svc.httpError /\ svc.b = 60
    /\ Len(events) = 1 /\ BusyIndices(events, svc.a) = {1}
    /\ events[1].start = At(BizDay, 10, 0) /\ events[1].end = At(BizDay, 11, 0)
    /\ Len(svc.slots) = 5

\* C4: no returned slot [s, s + duration) intersects a busy interval
\* expanded by the buffer on its end side, [bStart, bEnd + buffer)
C4_SlotNonOverlap ==
    SlotsQuery =>
        \A k \in 1..Len(svc.slots) : \A i \in BusyIndices(events, svc.a) :
            ~Overlaps(SlotStart(svc.a, svc.slots[k]),
                      SlotStart(svc.a, svc.slots[k]) + svc.b,
                      events[i].start,
                      events[i].end + BOOKING_BUFFER_MINUTES)

\* slots returned around two busy intervals, one nested in the other and
\* listed before it
C4_Witness ==
    /\ SlotsQuery /\ Len(svc.slots) > 0
    /\ Len(events) = 2 /\ BusyIndices(events, svc.a) = {1, 2}
    /\ events[2].start < events[1].start
    /\ events[1].end < events[2].end

\* C5 as stated: every slot starts at businessStart + k * duration
C5_AlignedToBusinessStart ==
    SlotsQuery =>
        \A k \in 1..Len(svc.slots) :
            (SlotStart(svc.a, svc.slots[k]) - BusinessStart(svc.a)) % svc.b = 0

\* C5 amended: every slot starts at anchor + k * duration (k >= 0), where the
\* anchor is businessStart or the end of a busy interval plus the buffer
C5_AlignedToAnchor ==
    SlotsQuery =>
        \A k \in 1..Len(svc.slots) :
            LET s == SlotStart(svc.a, svc.slots[k])
                anchors == { BusinessStart(svc.a) } \cup
                           { events[i].end + BOOKING_BUFFER_MINUTES :
                                 i \in BusyIndices(events, svc.a) }
            IN  \E a \in anchors : s >= a /\ (s - a) % svc.b = 0

\* a slot that starts after a busy interval, off the businessStart grid
C5_Witness ==
    /\ SlotsQuery
    /\ \E k \in 1..Len(svc.slots) :
          (SlotStart(svc.a, svc.slots[k]) - BusinessStart(svc.a)) % svc.b # 0

\* C6: free_slots never returns more than MAX_SUGGESTIONS slots
C6_SlotCountBound == SlotsQuery => Len(svc.slots) <= MAX_SUGGESTIONS

\* a day with more free slots than MAX_SUGGESTIONS, cut to the maximum
C6_Witness ==
    /\ SlotsQuery /\ Len(svc.slots) = MAX_SUGGESTIONS
    /\ Len(GreedyWalk(BusinessStart(svc.a), <<>>,
                      SortedBusy(events, BusyIndices(events, svc.a)),
                      svc.b, BusinessEnd(svc.a))) > MAX_SUGGESTIONS

\* C7: on a date whose weekday is not a business day free_slots is empty,
\* whatever the store holds
C7_NonBusinessDayEmpty ==
    (SlotsQuery /\ weekday(svc.a) \notin BUSINESS_DAYS) => svc.slots = <<>>

\* a Saturday queried while the store answers and holds an event that day
C7_Witness ==
    /\ SlotsQuery /\ weekday(svc.a) \notin BUSINESS_DAYS /\ ~svc.httpError
    /\ \E i \in 1..Len(events) : DayOf(events[i].start) = DayOf(svc.a)
    /\ \E i \in 1..Len(events) : DayOf(events[i].start) # DayOf(svc.a)

AvailabilityQuery == svc.op = "check_availability"

SomeOverlap(evs, s, e) ==
    \E i \in 1..Len(evs) :
        evs[i].status # "cancelled" /\ Overlaps(s, e, evs[i].start, evs[i].end)

\* C8 as stated: is_available(s, e) is false iff a non-cancelled event of
\* the store overlaps [s, e)
C8_FalseIffOverlap ==
    AvailabilityQuery => (svc.avail = FALSE <=> SomeOverlap(events, svc.a, svc.b))

\* C8 amended: is_available(s, e) is false iff a non-cancelled event of the
\* store overlaps [s, e) or the store's list query fails
C8_FalseIffOverlapOrFailure ==
    AvailabilityQuery =>
        (svc.avail = FALSE <=> (SomeOverlap(events, svc.a, svc.b) \/ svc.httpError))

\* the store answers, holds only a cancelled overlapping event and one that
\* does not overlap, and the window is reported available
C8_Witness ==
    /\ AvailabilityQuery /\ ~svc.httpError /\ svc.avail = TRUE
    /\ \E i \in 1..Len(events) :
          events[i].status = "cancelled"
          /\ Overlaps(svc.a, svc.b, events[i].start, events[i].end)
    /\ \E i \in 1..Len(events) : events[i].status # "cancelled"

(***************************************************************************)
(* Properties of the pipeline: failures of the collaborators               *)
(***************************************************************************)
LlmCalls(r) == { k \in 1..Len(calls[r]) : calls[r][k].to = "llm" }

LlmFailedIn(r, node) ==
    \E k \in LlmCalls(r) : calls[r][k].op = node /\ calls[r][k].failed

LlmAnsweredIn(r, node) ==
    \E k \in LlmCalls(r) : calls[r][k].op = node /\ ~calls[r][k].failed

ClassificationError == StrVal("Failed to understand your request")

\* C11: when the language model fails during intent classification, the run
\* carries the classification error, runs neither the dispatch nor the
\* response generation, calls no collaborator again, and ends with the
\* apology that embeds that error
C11_ClassificationFailure ==
    \A r \in Runs :
        LlmFailedIn(r, "understand_intent") =>
            /\ state[r].error = ClassificationError
            /\ state[r].intent = Null
            /\ state[r].tool_results = Null
            /\ Len(calls[r]) = 1
            /\ pc[r] \in {"extract_entities", "handle_error", "END", "returned"}
            /\ pc[r] \in {"END", "returned"} =>
                  state[r].response =
                      [kind |-> "apology_issue", error |-> ClassificationError]
            /\ pc[r] = "returned" =>
                  reply[r] = [kind |-> "apology_error", error |-> ClassificationError]

\* a run whose classification call raised has returned the apology
C11_Witness ==
    /\ LlmFailedIn(1, "understand_intent")
    /\ pc[1] = "returned"
    /\ reply[1] = [kind |-> "apology_error", error |-> ClassificationError]

ExtractionCalled(r) ==
    \E k \in LlmCalls(r) : calls[r][k].op = "extract_entities"

\* C12: the entity extraction step cannot fail: whatever the language model
\* does during entity extraction (answers with malformed text, or raises),
\* the run leaves the step without an error, on its way to the dispatch
C12_ExtractionNeverFails ==
    \A r \in Runs :
        ExtractionCalled(r) =>
            /\ ~Truthy(state[r].error)
            /\ pc[r] # "handle_error"

\* the replies of the language model to the entity prompt, as logged
EntityReplyOf(r) ==
    { calls[r][k].content : k \in { j \in LlmCalls(r) :
          calls[r][j].op = "extract_entities" /\ ~calls[r][j].failed } }

\* the text is a JSON object once the fences are stripped and the braces cut
YieldsMapping(content) == content.body.json = "object"

\* C13: whenever the text the language model returns for the entities does
\* not yield a JSON mapping, the entity bag of the run is exactly the fallback
\* bag of the raw message, and its title is not null
C13_NonMappingFallsBack ==
    \A r \in Runs : \A content \in EntityReplyOf(r) :
        ~YieldsMapping(content) =>
            /\ state[r].entities = Agent_simple_entity_extraction(state[r].user_message)
            /\ Truthy(Get(state[r].entities, "title", Null))

\* the date and time of the entities are present and cannot be normalised
NormalizationFails(st) ==
    LET e == st.entities
    IN  /\ st.intent # Null
        /\ IsMapping(e)
        /\ \/ /\ st.intent.text \in {"book_appointment", "check_availability"}
              /\ ~MissingDateOrTime(Get(e, "date", Null), Get(e, "time", Null))
              /\ ~Truthy(Agent_parse_datetime(Get(e, "date", Null), Get(e, "time", Null)))
           \/ /\ st.intent.text = "suggest_times"
              /\ Truthy(Get(e, "date", Null))
              /\ ~Truthy(Agent_parse_date(Get(e, "date", Null)))

\* the create call of the run was rejected by the store
CreateFailed(r) ==
    \E k \in CallsOf(r, "create_event") : calls[r][k].result.kind = "book_error"

PastDispatch(r) == pc[r] \in {"generate_response", "handle_error", "END", "returned"}

\* C14 as claimed: during the dispatch, a date/time normalisation failure or
\* an error of the calendar store puts the run in the error state: the error
\* is set and the run ends through the error handler, not through the
\* response generation
C14_DispatchFailureFails ==
    \A r \in Runs :
        (PastDispatch(r) /\ (NormalizationFails(state[r]) \/ CreateFailed(r))) =>
            /\ Truthy(state[r].error)
            /\ pc[r] # "generate_response"

NotUnderstood ==
    {"booking_datetime_not_understood", "check_datetime_not_understood",
     "suggest_date_not_understood"}

\* C14 as amended: no dispatch step sets the error or leads to the error
\* handler, whatever the entities are and whether the store answers or
\* raises: the step stores an outcome and moves on to the response
\* generation (or to the create call); a normalisation failure is stored as
\* the not-understood outcome and a rejected create as the booking-failed
\* outcome, with the store unchanged
C14_DispatchFailureIsOutcome ==
    [][ \A r \in Runs :
          (pc[r] \in {"use_tools", "create_event"} /\ pc'[r] # pc[r]) =>
             /\ state'[r].error = Null
             /\ pc'[r] \in {"create_event", "generate_response"}
             /\ pc'[r] = "generate_response" => state'[r].tool_results # Null
             /\ (pc[r] = "use_tools" /\ NormalizationFails(state[r])) =>
                   /\ state'[r].tool_results.kind \in NotUnderstood
                   /\ pc'[r] = "generate_response"
             /\ (pc[r] = "create_event" /\ events' = events) =>
                   state'[r].tool_results.kind = "book_error" ]_vars

\* a run whose create call was rejected has returned its answer without an
\* error
C14_Witness ==
    /\ CreateFailed(1)
    /\ pc[1] = "returned"
    /\ state[1].error = Null
    /\ state[1].tool_results.kind = "book_error"
    /\ reply[1] = state[1].response

\* C15: for book_appointment, check_availability and suggest_times, when the
\* date or time of the entities cannot be normalised the outcome is the fixed
\* clarification of the intent, the run carries no error and does not go
\* through the error handler, and the calendar store is not contacted
C15_UnparseableIsClarification ==
    \A r \in Runs :
        NormalizationFails(state[r]) =>
            /\ CalendarCalls(r) = {}
            /\ pc[r] \notin {"create_event", "handle_error"}
            /\ state[r].error = Null
            /\ PastDispatch(r) =>
                  state[r].tool_results =
                      CASE IntentOf(r) = "book_appointment" ->
                               Outcome("booking_datetime_not_understood")
                        [] IntentOf(r) = "check_availability" ->
                               Outcome("check_datetime_not_understood")
                        [] OTHER -> Outcome("suggest_date_not_understood")
            /\ pc[r] = "returned" => reply[r] = state[r].response

\* a suggestion run whose date is the word "someday" has been answered with
\* the clarification
C15_Witness ==
    /\ IntentOf(1) = "suggest_times"
    /\ IsMapping(state[1].entities)
    /\ Get(state[1].entities, "date", Null) = StrVal("someday")
    /\ pc[1] = "returned"
    /\ state[1].tool_results = Outcome("suggest_date_not_understood")
    /\ CalendarCalls(1) = {}

\* C16: when the language model fails while phrasing the response, the run
\* carries no error: its response, and the text returned to the caller, is
\* the tool outcome as the dispatch stored it
C16_PhrasingFailureFallsBack ==
    \A r \in Runs :
        LlmFailedIn(r, "generate_response") =>
            /\ state[r].error = Null
            /\ state[r].tool_results # Null
            /\ state[r].response = state[r].tool_results
            /\ pc[r] \in {"END", "returned"}
            /\ pc[r] = "returned" => reply[r] = state[r].tool_results

\* a booking run whose phrasing call raised has returned the booking
\* confirmation itself
C16_Witness ==
    /\ LlmFailedIn(1, "generate_response")
    /\ pc[1] = "returned"
    /\ Booked(1)
    /\ reply[1] = state[1].tool_results
    /\ reply[1].kind = "booked"

\* the position of a node on the paths of the graph
NodeRank(node) ==
    CASE node = "idle" -> 0
      [] node = "understand_intent" -> 1
      [] node = "extract_entities" -> 2
      [] node = "use_tools" -> 3
      [] node = "create_event" -> 4
      [] node \in {"generate_response", "handle_error"} -> 5
      [] node = "END" -> 6
      [] OTHER -> 7

\* a run only moves forward along the graph: no node is entered twice
NoStepTwice ==
    [][ \A r \in Runs : pc'[r] # pc[r] => NodeRank(pc'[r]) > NodeRank(pc[r]) ]_vars

\* no node runs twice: at most three calls of the language model, one per
\* node, and at most one create call
StepsAtMostOnce ==
    \A r \in Runs :
        /\ Cardinality(LlmCalls(r)) <= 3
        /\ \A j, k \in LlmCalls(r) : calls[r][j].op = calls[r][k].op => j = k
        /\ Cardinality(CallsOf(r, "create_event")) <= 1

\* C17: every run ends with a non-empty response, after at most three calls
\* of the language model and at most one create call (a rejected create is
\* not tried again)
C17_EndsWithResponse ==
    \A r \in Runs :
        pc[r] = "returned" =>
            /\ Truthy(reply[r])
            /\ Cardinality(LlmCalls(r)) <= 3
            /\ Cardinality(CallsOf(r, "create_event")) <= 1

\* C18: at the end of every run exactly one of the tool result (the success
\* payload) and the error is populated: never both and never neither
C18_ExactlyOnePopulated ==
    \A r \in Runs :
        pc[r] \in {"END", "returned"} =>
            (Truthy(state[r].tool_results) <=> ~Truthy(state[r].error))

\* a run that failed in the entity extraction has ended with the error and
\* without a tool result
C18_Witness ==
    /\ LlmFailedIn(1, "extract_entities")
    /\ pc[1] = "returned"
    /\ Truthy(state[1].error)
    /\ state[1].tool_results = Null

(***************************************************************************)
(* The normaliser called directly on rendered dates and on time fragments  *)
(***************************************************************************)
\* Each behaviour is one call of the normaliser on one input: its result does
\* not depend on earlier calls.
\* the dates that are rendered: every day of two years, one of them leap
RenderedYears == {2023, 2024}

RenderedDates ==
    { ymd \in RenderedYears \X (1..12) \X (1..31) : ValidYMD(ymd[1], ymd[2], ymd[3]) }

\* strftime(fmt) of the date y-m-d, for the formats of DateFormats
RenderDate(ymd, fmt) ==
    CASE fmt.order = "ymd" -> NumDate(ymd[1], fmt.sep, ymd[2], ymd[3])
      [] fmt.order = "mdy" -> NumDate(ymd[2], fmt.sep, ymd[3], ymd[1])
      [] OTHER -> NumDate(ymd[3], fmt.sep, ymd[2], ymd[1])

\* the absolute formats the dates are rendered in, in the order of the code
RenderFormats ==
    << [sep |-> "-", order |-> "ymd"], [sep |-> "/", order |-> "mdy"],
       [sep |-> "-", order |-> "mdy"], [sep |-> "/", order |-> "dmy"],
       [sep |-> "-", order |-> "dmy"] >>

\* time fragments: hours up to 25, minutes up to 60, with and without suffix
TimeFragments ==
    { TimeStr(hh, FALSE, 0, mer) : hh \in 0..25, mer \in {"", "am", "pm"} } \cup
    { TimeStr(hh, TRUE, mm, mer) :
          hh \in 0..25, mm \in {0, 5, 30, 59, 60}, mer \in {"", "am", "pm"} }

\* _parse_date_component on the date ymd rendered in the k-th format
CallParseDateComponent(ymd, k) ==
    /\ svc = NoQuery
    /\ svc' = [op |-> "_parse_date_component", date |-> ymd, fmt |-> RenderFormats[k],
               result |-> Agent_parse_date_component(RenderDate(ymd, RenderFormats[k]))]
    /\ UNCHANGED <<events, state, pc, pending, calls, reply>>

\* _parse_time_component on a time fragment
CallParseTimeComponent(time_str) ==
    /\ svc = NoQuery
    /\ svc' = [op |-> "_parse_time_component", time_str |-> time_str,
               result |-> Agent_parse_time_component(time_str)]
    /\ UNCHANGED <<events, state, pc, pending, calls, reply>>

\* messages holding one time expression: "H am/pm", "HH:MM am/pm" or "HH:MM"
TimeMessages ==
    { <<StrVal("book"), t>> : t \in { f \in TimeFragments : f.colon \/ f.mer # "" } }

\* _simple_entity_extraction on a message
CallSimpleEntityExtraction(message) ==
    /\ svc = NoQuery
    /\ svc' = [op |-> "_simple_entity_extraction", message |-> message,
               result |-> Agent_simple_entity_extraction(message)]
    /\ UNCHANGED <<events, state, pc, pending, calls, reply>>

NextNormalizer ==
    \/ \E ymd \in RenderedDates, k \in 1..Len(RenderFormats) :
           CallParseDateComponent(ymd, k)
    \/ \E time_str \in TimeFragments : CallParseTimeComponent(time_str)
    \/ \E message \in TimeMessages : CallSimpleEntityExtraction(message)

SpecNormalizer == Init /\ [][NextNormalizer]_vars

DateParsed == svc.op = "_parse_date_component"

DateOf(ymd) == Date(DayIndex(ymd[1], ymd[2], ymd[3]))

\* C19 as claimed: a date rendered in any of the five absolute formats is
\* normalised to the same date
C19_RoundTrip ==
    DateParsed => svc.result = DateOf(svc.date)

\* C19 as amended: the round trip holds for the year-first and month-first
\* formats, and for the day-first formats when the day is above 12 or equals
\* the month; a day-first rendering with a day up to 12 is read month-first,
\* as the date with day and month exchanged
C19_RoundTripUnlessAmbiguous ==
    DateParsed =>
        LET ymd == svc.date
        IN  IF svc.fmt.order \in {"ymd", "mdy"} \/ ymd[3] > 12 \/ ymd[3] = ymd[2]
            THEN svc.result = DateOf(ymd)
            ELSE /\ svc.result = DateOf(<<ymd[1], ymd[3], ymd[2]>>)
                 /\ svc.result # DateOf(ymd)

\* 25 January 2024 rendered as 25/01/2024 comes back as 25 January 2024
C19_Witness ==
    /\ DateParsed
    /\ svc.date = <<2024, 1, 25>>
    /\ svc.fmt = [sep |-> "/", order |-> "dmy"]
    /\ svc.result = Date(24)

TimeParsed == svc.op = "_parse_time_component"

\* the hour on the 24-hour clock that a fragment stands for
HourOn24(t) ==
    CASE t.mer = "pm" -> IF t.hh = 12 THEN 12 ELSE t.hh + 12
      [] t.mer = "am" -> IF t.hh = 12 THEN 0 ELSE t.hh
      [] OTHER -> t.hh

MinuteOf(t) == IF t.colon THEN t.mm ELSE 0

\* C20: a fragment with a meridiem suffix is converted to the 24-hour clock
\* (12 pm is 12:00, 12 am is 00:00, h pm is h + 12 and h am is h for h in
\* 1..11), a colon form without suffix is taken literally, a bare integer is
\* that hour with zero minutes, and a fragment whose hour or minute falls
\* outside 0..23 and 0..59 is rejected, never clamped or wrapped
C20_TimeConversion ==
    TimeParsed =>
        LET t == svc.time_str
        IN  /\ (t.mer = "pm" /\ t.hh = 12 /\ MinuteOf(t) \in 0..59) =>
                  svc.result = TimeOfDay(12, MinuteOf(t))
            /\ (t.mer = "am" /\ t.hh = 12 /\ MinuteOf(t) \in 0..59) =>
                  svc.result = TimeOfDay(0, MinuteOf(t))
            /\ (t.mer = "pm" /\ t.hh \in 1..11 /\ MinuteOf(t) \in 0..59) =>
                  svc.result = TimeOfDay(t.hh + 12, MinuteOf(t))
            /\ (t.mer = "am" /\ t.hh \in 1..11 /\ MinuteOf(t) \in 0..59) =>
                  svc.result = TimeOfDay(t.hh, MinuteOf(t))
            /\ (t.mer = "" /\ t.hh \in 0..23 /\ MinuteOf(t) \in 0..59) =>
                  svc.result = TimeOfDay(t.hh, MinuteOf(t))
            /\ (t.hh \notin 0..23 \/ MinuteOf(t) \notin 0..59) => svc.result = Null
            /\ svc.result # Null =>
                  svc.result = TimeOfDay(HourOn24(t), MinuteOf(t))
            /\ svc.result = Null <=>
                  (HourOn24(t) \notin 0..23 \/ MinuteOf(t) \notin 0..59)

\* the fragment 11:30 pm has been normalised to 23:30
C20_Witness ==
    /\ TimeParsed
    /\ svc.time_str = TimeStr(11, TRUE, 30, "pm")
    /\ svc.result = TimeOfDay(23, 30)

(***************************************************************************)
(* Properties of the pipeline: what the dispatch passes to the store       *)
(***************************************************************************)
\* the duration of the entities, 60 minutes when it is absent or null
EntityDuration(e) ==
    IF Truthy(Get(e, "duration", Null)) THEN Get(e, "duration", Null).v ELSE 60

\* C21: create is invoked with start equal to the normalised instant of the
\* entities' date and time (tomorrow at 14:00 for "tomorrow" and "2 pm") and
\* end equal to start plus the duration of the entities, 60 minutes when the
\* duration is absent or null; it is the window is_available was asked about
C21_CreateWindow ==
    \A r \in Runs : \A k \in CallsOf(r, "create_event") :
        LET e == state[r].entities
            start == Agent_parse_datetime(Get(e, "date", Null), Get(e, "time", Null))
        IN  /\ Truthy(start)
            /\ calls[r][k].a = start.t
            /\ calls[r][k].b = start.t + EntityDuration(e)
            /\ (Get(e, "date", Null) = StrVal("tomorrow") /\ Get(e, "time", Null) = TwoPm)
                   => calls[r][k].a = At(Today + 1, 14, 0)
            /\ \E j \in CallsOf(r, "check_availability") :
                   /\ j < k
                   /\ calls[r][j].a = calls[r][k].a
                   /\ calls[r][j].b = calls[r][k].b

\* the booking of 2024-01-12 at 14:00 for 30 minutes has created the event
\* from 14:00 to 14:30
C21_Witness ==
    /\ Booked(1)
    /\ Get(state[1].entities, "duration", Null) = IntVal(30)
    /\ \E k \in CallsOf(1, "create_event") :
          /\ calls[1][k].a = At(BizDay, 14, 0)
          /\ calls[1][k].b = At(BizDay, 14, 30)
    /\ \E i \in 1..Len(events) :
          events[i].start = At(BizDay, 14, 0) /\ events[i].end = At(BizDay, 14, 30)

\* C22: for list_appointments, when the entities carry a date that the
\* normaliser accepts (the relative keywords included), the appointments of
\* that day are listed; when the date is absent, the upcoming ones are
C22_ListsResolvedDay ==
    \A r \in Runs :
        (IntentOf(r) = "list_appointments" /\ IsMapping(state[r].entities)
             /\ Dispatched(r)) =>
            LET date == Get(state[r].entities, "date", Null)
                day == Agent_parse_date_component(date)
                res == state[r].tool_results
            IN  /\ Truthy(day) =>
                      /\ res.kind \in {"appointments", "no_appointments"}
                      /\ res.date = day
                /\ ~Truthy(date) =>
                      /\ res.kind \in {"appointments", "no_appointments"}
                      /\ res.date = StrVal("upcoming")

(***************************************************************************)
(* Properties of the search for the next free slot                         *)
(***************************************************************************)
NextSlotQuery == svc.op = "find_next_available_slot"

\* the free slots of the i-th day of the search
SlotsOfDay(i) ==
    Service_get_available_slots(events, svc.a + i * MinutesPerDay, svc.b,
                                i \in svc.failing)

\* C23: the search examines the days from the given date on, in ascending
\* order, for seven days, and returns the first slot of the earliest of them
\* whose free slots are not empty; it returns none exactly when the free
\* slots of every day of the horizon are empty
C23_EarliestNonEmptyDay ==
    NextSlotQuery =>
        LET nonEmpty == { i \in 0..(SearchDays - 1) : SlotsOfDay(i) # <<>> }
        IN  /\ (svc.result.kind = "no_slot_found") <=> (nonEmpty = {})
            /\ nonEmpty # {} =>
                  LET first == CHOOSE i \in nonEmpty : \A j \in nonEmpty : i <= j
                  IN  svc.result = [kind |-> "next_slot",
                                    slot |-> SlotsOfDay(first)[1],
                                    date |-> Date(DayOf(svc.a) + first)]

\* a search from a fully booked Friday passes the weekend and returns the
\* first slot of Monday
C23_Witness ==
    /\ NextSlotQuery /\ svc.a = At(BizDay, 0, 0) /\ svc.failing = {}
    /\ \E i \in 1..Len(events) : events[i].allDay /\ events[i].status # "cancelled"
    /\ svc.result.kind = "next_slot"
    /\ svc.result.date = Date(BizDay + 3)
    /\ svc.result.slot = strftime_IMp(At(BizDay + 3, 9, 0))

(***************************************************************************)
(* Properties of the availability engine: cancelled events, bookability    *)
(***************************************************************************)
IsLive(ev) == ev.status # "cancelled"

\* the store without its cancelled events
WithoutCancelled(evs) == SelectSeq(evs, IsLive)

\* C24: cancelled events never influence the busy intervals: is_available
\* and free_slots return what they return on the same calendar with every
\* cancelled event removed
C24_CancelledIgnored ==
    /\ AvailabilityQuery =>
          svc.avail = Service_check_availability(WithoutCancelled(events),
                                                 svc.a, svc.b, svc.httpError)
    /\ SlotsQuery =>
          svc.slots = Service_get_available_slots(WithoutCancelled(events),
                                                  svc.a, svc.b, svc.httpError)

\* the only event of the business day is cancelled and lies inside the
\* business hours; the day is returned as free from 09:00 on
C24_Witness ==
    /\ SlotsQuery /\ ~svc.httpError /\ weekday(svc.a) \in BUSINESS_DAYS
    /\ Len(events) > 0
    /\ WithoutCancelled(events) = <<>>
    /\ \E i \in 1..Len(events) :
          Overlaps(BusinessStart(svc.a), BusinessEnd(svc.a),
                   events[i].start, events[i].end)
    /\ Len(svc.slots) > 0
    /\ svc.slots[1] = strftime_IMp(BusinessStart(svc.a))

(***************************************************************************)
(* The fallback extractor against the normaliser                           *)
(***************************************************************************)
FallbackExtracted == svc.op = "_simple_entity_extraction"

\* the time expression of the message
TimeExpressionOf(message) == message[2]

\* C25: for a message with one time expression "H am/pm", "HH:MM am/pm" or
\* "HH:MM", the time field written by the fallback extractor denotes the
\* same time of day as the normaliser gives for the expression itself
C25_FallbackAgrees ==
    FallbackExtracted =>
        Agent_parse_time_component(Get(svc.result, "time", Null))
            = Agent_parse_time_component(TimeExpressionOf(svc.message))

(***************************************************************************)
(* Termination of the slot walk                                            *)
(***************************************************************************)
\* a step that is one iteration of a slot-emitting loop
LoopIteration ==
    /\ InWalk /\ svc.loop \in {"while_before", "while_after"}
    /\ svc'.op = svc.op /\ svc'.loop = svc.loop
    /\ Len(svc'.available_slots) = Len(svc.available_slots) + 1

\* C26: get_available_slots terminates for every integer duration, zero
\* and negative included: every iteration of a slot-emitting loop moves
\* current_time forward, towards the bound that ends the loop
C26_LoopsProgress ==
    [][LoopIteration => svc'.current_time > svc.current_time]_vars

\* the step-by-step walk returns what get_available_slots returns
WalkAgrees ==
    (InWalk /\ svc.loop = "returned" /\ svc.duration_minutes > 0) =>
        svc.result = Service_get_available_slots(events, svc.date,
                                                 svc.duration_minutes, FALSE)

\* for a positive duration every iteration moves current_time forward
PositiveProgress ==
    [][(LoopIteration /\ svc.duration_minutes > 0)
          => svc'.current_time > svc.current_time]_vars

\* a loop entered with duration 0 fills the list without moving
StuckAtZero ==
    /\ InWalk /\ svc.duration_minutes = 0 /\ svc.loop = "while_after"
    /\ Len(svc.available_slots) = MaxSlots
    /\ svc.current_time = replace_hour(svc.date, BUSINESS_START_HOUR)

(***************************************************************************)
(* Suggested slots against the availability check                          *)
(***************************************************************************)
\* C27: every slot start s returned by get_available_slots(date, d)
\* satisfies check_availability(s, s + d) = true on the same store
C27_SuggestionsBookable ==
    SlotsQuery =>
        \A k \in 1..Len(svc.slots) :
            LET s == SlotStart(svc.a, svc.slots[k])
            IN  Service_check_availability(events, s, s + svc.b, FALSE)

\* slots are returned around an event of the store that is not cancelled
C27_Witness ==
    /\ SlotsQuery /\ Len(svc.slots) > 1
    /\ BusyIndices(events, svc.a) # {}
    /\ \E k \in 1..Len(svc.slots), i \in BusyIndices(events, svc.a) :
           SlotStart(svc.a, svc.slots[k]) = events[i].end + BOOKING_BUFFER_MINUTES

(***************************************************************************)
(* The availability check against the booking                              *)
(***************************************************************************)
\* what book_appointment answers to its availability question for the
\* entities on the store evs
BookingFindsFree(entities, evs) ==
    LET req == Agent_handle_booking(entities)
    IN  ~req.done /\ Tools_book_is_available(evs, req.start_time,
                                            req.start_time + req.duration_minutes, FALSE)

\* the step in which run r answers a check_availability request with
\* "available"
ReportsAvailable(r) ==
    /\ pc[r] = "use_tools" /\ pc'[r] # "use_tools"
    /\ IntentOf(r) = "check_availability"
    /\ state'[r].tool_results.kind = "slot_available"

\* C28: when the check_availability intent reports the slot of an entity
\* bag available, the book_appointment intent on the same bag and the same
\* store does not find it unavailable, whatever the duration of the bag
C28_CheckAgreesWithBooking ==
    [][\A r \in Runs :
          ReportsAvailable(r) => BookingFindsFree(state[r].entities, events)]_vars

(***************************************************************************)
(* Serial bookings                                                         *)
(***************************************************************************)
\* the step in which run r creates an event
Creates(r) == pc[r] = "create_event" /\ Len(events') = Len(events) + 1

\* C29: when no two booking runs interleave between their availability
\* check and their creation, no run creates an event that overlaps an
\* existing event that is not cancelled, and the events the runs created
\* never overlap each other
C29_SerialBookingsDisjoint ==
    [][/\ \A r \in Runs :
             Creates(r) =>
                 ~SomeOverlap(events, events'[Len(events')].start,
                              events'[Len(events')].end)
       /\ ~DuplicateBooking']_vars

\* a run booked 14:00-15:00 and the other run, asking for the overlapping
\* 13:00-15:00 afterwards, was refused
C29_Witness ==
    /\ \E r \in Runs :
          /\ Booked(r)
          /\ \E q \in Runs \ {r} :
                /\ state[q].tool_results.kind = "not_available"
                /\ state[q].entities = TwoHourBag
                /\ pc[q] = "returned"
    /\ Len(events) = 1 /\ events[1].start = At(BizDay, 14, 0)

\* both runs booked, windows that do not overlap
BothBookedDisjoint ==
    /\ \A r \in Runs : Booked(r)
    /\ Len(events) = 2 /\ ~DuplicateBooking

(***************************************************************************)
(* The error of a run                                                      *)
(***************************************************************************)
\* C30: once the error of a run is set, no step clears or changes it, no
\* step of the run calls the language model or the calendar store, and the
\* entities and the tool results keep their values
C30_ErrorIsFinal ==
    [][\A r \in Runs :
          Truthy(state[r].error) =>
              /\ state'[r].error = state[r].error
              /\ calls'[r] = calls[r]
              /\ state'[r].entities = state[r].entities
              /\ state'[r].tool_results = state[r].tool_results]_vars

\* a run whose classification failed has passed _extract_entities and
\* _handle_error and has returned, with the one call it made before the error
C30_Witness ==
    /\ pc[1] = "returned"
    /\ state[1].error = ClassificationError
    /\ Len(calls[1]) = 1
    /\ state[1].response.kind = "apology_issue"
    /\ state[1].entities = default_state.entities

====
